---- MODULE Spec2Model ----
(***************************************************************************)
(* A model of Orchestra (FreakTSG/Orchestra): the parallel dispatchers,    *)
(* the cross-evaluator, the query pipeline of the orchestrators and the    *)
(* backup manager.                                                         *)
(*                                                                         *)
(* Indices are 1-based here where Python's are 0-based.  Scores are        *)
(* integers; an average is kept as the exact fraction num/den (Python      *)
(* divides the exact integer sum by the count, so equal fractions give     *)
(* equal floats and the order of the floats is the order of the            *)
(* fractions).                                                             *)
(***************************************************************************)
EXTENDS Naturals, Integers, Sequences, FiniteSets, TLC

\* ------------------------------------------------------------------ bounds

\* The longest roster a dispatcher is given.
MaxAgents == 3

\* ------------------------------------------------------------ agent roster

\* Agent names; "Claude" and "claude" differ only in case.
Names == {"Claude", "claude", "GPT"}

\* str.lower() on the names above.
lower(n) == IF n = "Claude" THEN "claude" ELSE IF n = "GPT" THEN "gpt" ELSE n

\* The two families of agents: subprocess-based (BaseCLIAgent, run by
\* CLIDispatcher) and native-call-based (BaseAgent subclasses such as
\* ClaudeAgent, run by ParallelDispatcher).
Kinds == {"cli", "native"}

\* All sequences over S of length at most n.
SeqsUpTo(S, n) == UNION {[1..k -> S] : k \in 0..n}

VARIABLES
    kind,        \* which dispatcher/agent family this run uses
    agents,      \* dispatcher.agents: the roster, a sequence of names
    dpc,         \* dispatch_all: "idle", "gather", "returned", "raised"
    task,        \* per roster index: the agent.query task handed to gather
    proc,        \* per roster index: the external process / API call
    doneOrder,   \* roster indices in the order their tasks completed
    responses,   \* the list dispatch_all returned
    raisedErr,   \* the error dispatch_all raised to its caller, or "none"
    epc,         \* evaluate_responses: "idle", "matrix", "returned", "raised"
    ei,          \* _create_evaluation_matrix: index of the candidate response
    ej,          \* _create_evaluation_matrix: index of the evaluating agent
    matrix,      \* the evaluation matrix: per candidate, evaluator name -> score
    evalLog,     \* per candidate and roster index: how that evaluate call ended
    results,     \* the list evaluate_responses returned
    qpc,         \* query: "idle", "running", "returned", "raised"
    best,        \* query: the best_response of the returned QueryResult
    fs,          \* the file system: location -> content of the file there
    now,         \* the clock, in whole seconds
    taken,       \* per backup name: what its last create_backup([f]) call snapshotted
    lastOp,      \* the last backup-manager call and what it returned
    dirs,        \* the directories of the working tree, below its root
    applied,     \* the last apply_changes call and the summary it returned
    offer,       \* offer_solution_selection: its position and what it was given
    diffed,      \* the last generate_diffs call: its operations and the diffs it returned
    response_text, \* the response text given to parse_response
    parsed,      \* how parse_response ended and the operations it returned
    calls,       \* the parse_response calls made on one CodeParser: text and result
    orch,        \* MultiAgentCLICoder(...): how the constructor ended
    asked,       \* the agent_names given to dispatch_to_agents
    repl         \* the OrchestraREPL: its attributes and what its last execute did

dvars == <<kind, agents, dpc, task, proc, doneOrder, responses, raisedErr>>

evars == <<epc, ei, ej, matrix, evalLog, results>>

qvars == <<qpc, best>>

bvars == <<fs, now, taken, lastOp, dirs>>

avars == <<applied, offer, diffed>>

pvars == <<response_text, parsed, calls>>

ovars == <<orch, asked, repl>>

vars == <<dvars, evars, qvars, bvars, avars, pvars, ovars>>

\* What the dispatcher's steps leave alone, what the evaluator's do, and
\* what the backup manager's do.
notDispatch == <<evars, qvars, bvars, avars, pvars, ovars>>
notEval == <<kind, agents, dpc, task, proc, doneOrder, responses, raisedErr, qvars, bvars, avars, pvars, ovars>>
notBackup == <<dvars, evars, qvars, avars, pvars, ovars>>

\* -------------------------------------------------------------- responses

NoResult == [tag |-> "none", agent_name |-> "", content |-> "", error |-> "absent", by |-> 0]

\* AgentResponse(agent_name, content, metadata): `error` is metadata["error"]
\* ("absent" when the key is not set); `by` is the roster index of the agent
\* object whose query produced it.
AgentResponse(name, content, error, by) ==
    [tag |-> "response", agent_name |-> name, content |-> content, error |-> error, by |-> by]

\* An exception object that escaped agent.query; gather(return_exceptions=True)
\* stores it in the task's slot.
ExceptionResult(text, by) ==
    [tag |-> "exception", agent_name |-> "", content |-> text, error |-> "absent", by |-> by]

TimeoutContent == "Error: Command timed out after 120 seconds"

N == Len(agents)

\* ---------------------------------------------------------- agent.query

\* The content of an error Response: f"Error: {str(e)}".
ErrorContent(text) == "Error: " \o text

\* BaseCLIAgent.query / ClaudeAgent.query, the Response of a call that
\* answered.
QueryOkResponse(i) == AgentResponse(agents[i], "answer", "absent", i)

\* The Response a query builds in its own `except Exception as e` branch:
\* the subprocess agents record str(e) as metadata["error"], the native ones
\* record True.
QueryErrorResponse(i, text) ==
    AgentResponse(agents[i], ErrorContent(text), IF kind = "cli" THEN text ELSE "True", i)

\* BaseCLIAgent.query, `except asyncio.TimeoutError`.
QueryTimeoutResponse(i) == AgentResponse(agents[i], TimeoutContent, "timeout", i)

\* Whether agent.query bounds its external call with asyncio.wait_for:
\* BaseCLIAgent.query does (timeout=120), the native agents await
\* client.messages.create(...) with no bound of their own.
HasQueryTimeout == kind = "cli"

\* ------------------------------------------------------- dispatch_all

\* A dispatcher that appended each result as its task completed.
GatherResultsByCompletion == [k \in 1..N |-> task[doneOrder[k]].res]

\* asyncio.gather(*tasks, ...): the results in task (roster) order.
GatherResults == [i \in 1..N |-> task[i].res]

\* gather called without return_exceptions.
ReturnExceptionsOff == FALSE

\* gather's return_exceptions flag as dispatch_all passes it.
ReturnExceptions == TRUE

\* The loop after gather: an exception in slot i becomes an error Response
\* named after self.agents[i]; anything else is kept.
WrapResult(i, r) ==
    IF r.tag = "exception"
    THEN AgentResponse(agents[i], ErrorContent(r.content), "True", r.by)
    ELSE r

ValidResponses == [i \in 1..N |-> WrapResult(i, GatherResults[i])]

\* A gather that returned at the first completed task.
FirstCompleted == \E i \in 1..N : task[i].st = "done"

\* gather completes when every task has.
AllDone == \A i \in 1..N : task[i].st = "done"

Finish(i, r) ==
    /\ task' = [task EXCEPT ![i] = [st |-> "done", res |-> r]]
    /\ doneOrder' = Append(doneOrder, i)

\* A dispatcher that started its gather whatever the roster.
NoAgentsUnchecked == FALSE

\* `if not self.agents`, the first statement of dispatch_all.
NoAgents == agents = <<>>

\* dispatch_all is called: no agents is a ValueError, otherwise one
\* agent.query coroutine per roster entry is handed to gather.
DispatchAll ==
    /\ dpc = "idle"
    /\ IF NoAgents
       THEN /\ dpc' = "raised"
            /\ raisedErr' = "ValueError"
            /\ UNCHANGED <<task, proc>>
       ELSE /\ dpc' = "gather"
            /\ task' = [i \in 1..N |-> [st |-> "created", res |-> NoResult]]
            /\ proc' = [i \in 1..N |-> "none"]
            /\ UNCHANGED raisedErr
    /\ UNCHANGED <<kind, agents, doneOrder, responses>>
    /\ UNCHANGED notDispatch

\* The head of agent.query up to its await: building the command or prompt
\* (outside the try) may raise, and the exception leaves query; spawning the
\* subprocess may fail inside the try, which query turns into an error
\* Response; otherwise the external call is in flight.
StartQuery(i) ==
    /\ dpc = "gather"
    /\ i \in DOMAIN task
    /\ task[i].st = "created"
    /\ \/ /\ Finish(i, ExceptionResult("boom", i))
          /\ UNCHANGED proc
       \/ /\ kind = "cli"
          /\ Finish(i, QueryErrorResponse(i, "spawn failed"))
          /\ UNCHANGED proc
       \/ /\ task' = [task EXCEPT ![i].st = "waiting"]
          /\ proc' = [proc EXCEPT ![i] = "running"]
          /\ UNCHANGED doneOrder
    /\ UNCHANGED <<kind, agents, dpc, responses, raisedErr>>
    /\ UNCHANGED notDispatch

\* The external process or API call ends: with an answer, or with an error
\* that query catches.
ExtAnswer(i) ==
    /\ dpc = "gather"
    /\ i \in DOMAIN task
    /\ task[i].st = "waiting"
    /\ proc[i] = "running"
    /\ \/ Finish(i, QueryOkResponse(i))
       \/ Finish(i, QueryErrorResponse(i, "call failed"))
    /\ proc' = [proc EXCEPT ![i] = "exited"]
    /\ UNCHANGED <<kind, agents, dpc, responses, raisedErr>>
    /\ UNCHANGED notDispatch

\* asyncio.wait_for(process.communicate(...), timeout=120) expires: the
\* await is cancelled and query returns the timeout Response.  Nothing in
\* query terminates the process.
Timeout(i) ==
    /\ dpc = "gather"
    /\ HasQueryTimeout
    /\ i \in DOMAIN task
    /\ task[i].st = "waiting"
    /\ Finish(i, QueryTimeoutResponse(i))
    /\ UNCHANGED <<kind, agents, dpc, proc, responses, raisedErr>>
    /\ UNCHANGED notDispatch

\* gather completes once every task has, and dispatch_all returns the
\* wrapped list.  (Without return_exceptions the first exception would leave
\* gather and dispatch_all.)
GatherReturn ==
    /\ dpc = "gather"
    /\ IF ~ReturnExceptions /\ \E i \in 1..N : task[i].st = "done" /\ task[i].res.tag = "exception"
       THEN /\ dpc' = "raised"
            /\ raisedErr' = "Exception"
            /\ UNCHANGED responses
       ELSE /\ AllDone
            /\ dpc' = "returned"
            /\ responses' = ValidResponses
            /\ UNCHANGED raisedErr
    /\ UNCHANGED <<kind, agents, task, proc, doneOrder>>
    /\ UNCHANGED notDispatch

\* The dispatcher as constructed, before any call.
DispatcherIdle ==
    /\ dpc = "idle"
    /\ task = <<>>
    /\ proc = <<>>
    /\ doneOrder = <<>>
    /\ raisedErr = "none"

\* The evaluator as constructed, before any call.
EvaluatorIdle ==
    /\ epc = "idle"
    /\ ei = 0
    /\ ej = 0
    /\ matrix = <<>>
    /\ evalLog = <<>>
    /\ results = <<>>

\* No query has been made.
QueryIdle ==
    /\ qpc = "idle"
    /\ best = NoResult

\* The argument file_paths of restore_backup: None, or a list.
NoneGiven == [given |-> FALSE, paths |-> <<>>]

\* The last backup-manager call: its kind, the backup it named, its
\* file_paths and the "restored" and "failed" entries of its summary; for
\* cleanup_old_backups its keep_count and the backups the file system
\* refused to delete.
NoOp == [op |-> "none", name |-> 0, sel |-> NoneGiven, restored |-> {}, failed |-> {},
         keep_count |-> 0, refused |-> {}]

\* An empty working directory and backup directory, the clock at its start.
BackupIdle ==
    /\ fs = <<>>
    /\ now = 0
    /\ taken = <<>>
    /\ lastOp = NoOp
    /\ dirs = {}

\* No apply_changes call has been made and no selection offered.
NoApply == [pc |-> "none", diffs |-> <<>>, dry_run |-> FALSE, faults |-> <<>>,
            outcome |-> <<>>, success |-> <<>>, failed |-> <<>>, skipped |-> <<>>]

NoOffer == [pc |-> "idle", texts |-> <<>>, selected |-> 0]

NoDiffs == [pc |-> "none", operations |-> <<>>, diffs |-> <<>>]

ApplyIdle ==
    /\ applied = NoApply
    /\ diffed = NoDiffs
    /\ offer = NoOffer

NoParse == [status |-> "none", ops |-> <<>>]

\* No text has been parsed.
ParserIdle ==
    /\ response_text = <<>>
    /\ parsed = NoParse
    /\ calls = <<>>

\* An OrchestraREPL after start(): running, the context gathered, an empty
\* history, the detected agents in use and the context limit of 10 files;
\* no line executed yet.
ReplStarted ==
    [running |-> TRUE, context |-> TRUE, history_len |-> 0, agents_used |-> {"claude", "gemini"},
     limit |-> 10, last |-> <<>>, handler |-> "none", queried |-> FALSE, raised |-> FALSE]

\* No orchestrator has been constructed and no subset dispatched.
OrchestratorIdle ==
    /\ orch = "none"
    /\ asked = {}
    /\ repl = ReplStarted

InitDispatch ==
    /\ kind \in Kinds
    /\ agents \in SeqsUpTo(Names, MaxAgents)
    /\ responses = <<>>
    /\ DispatcherIdle
    /\ EvaluatorIdle
    /\ QueryIdle
    /\ BackupIdle
    /\ ApplyIdle
    /\ ParserIdle
    /\ OrchestratorIdle

NextDispatch ==
    \/ DispatchAll
    \/ \E i \in 1..N : StartQuery(i)
    \/ \E i \in 1..N : ExtAnswer(i)
    \/ \E i \in 1..N : Timeout(i)
    \/ GatherReturn

SpecDispatch == InitDispatch /\ [][NextDispatch]_vars

\* The event loop runs every ready step of the program (the call, each
\* query's head, an expired timer, gather's completion); nothing obliges an
\* external process or service to answer.
FairSpecDispatch ==
    /\ SpecDispatch
    /\ WF_vars(DispatchAll)
    /\ \A i \in 1..MaxAgents : WF_vars(StartQuery(i))
    /\ \A i \in 1..MaxAgents : WF_vars(Timeout(i))
    /\ WF_vars(GatherReturn)

\* ------------------------------------------------- claims on dispatch_all

\* C1: for every roster of N >= 1 agents and every completion order,
\* dispatch_all returns exactly N Responses and the Response at index i is
\* the one produced for, and named after, the agent at roster index i.
C1_OneResponsePerAgentInRosterOrder ==
    dpc = "returned" =>
        /\ N >= 1
        /\ Len(responses) = N
        /\ \A i \in 1..N :
              /\ responses[i].tag = "response"
              /\ responses[i].by = i
              /\ responses[i].agent_name = agents[i]

\* A call over several agents has returned, and the last agent of the roster
\* was the first to complete.
C1_Witness ==
    /\ dpc = "returned"
    /\ N >= 2
    /\ doneOrder[1] = N
    /\ Len(responses) = N

\* C2: when an agent's query raises, the exception does not reach the caller
\* of dispatch_all; the failing agent's slot holds a Response marked as an
\* error that carries the error text and that agent's name, and every other
\* slot holds the result of that slot's own task.
C2_RaisingQueryIsIsolated ==
    /\ raisedErr # "Exception"
    /\ (agents # <<>>) => dpc # "raised"
    /\ dpc = "returned" =>
          \A i \in 1..N :
              IF task[i].res.tag = "exception"
              THEN /\ responses[i].tag = "response"
                   /\ responses[i].error = "True"
                   /\ responses[i].content = "Error: boom"
                   /\ responses[i].agent_name = agents[i]
              ELSE responses[i] = task[i].res

\* A call has returned in which one query raised and another answered.
C2_Witness ==
    /\ dpc = "returned"
    /\ \E i \in 1..N : task[i].res.tag = "exception"
    /\ \E j \in 1..N : task[j].res.tag = "response" /\ responses[j].content = "answer"

\* C3: every dispatch_all call eventually returns, for both families of
\* agents, and an agent whose external call never answered has a Response
\* with reason "timeout" in its slot.
C3_DispatchAllAlwaysReturns ==
    /\ [](dpc = "gather" => <>(dpc = "returned"))
    /\ [](dpc = "returned" =>
            \A i \in 1..N : proc[i] = "running" => responses[i].error = "timeout")

\* What does hold: a dispatcher of subprocess-based agents always returns.
SubprocessDispatchAllReturns ==
    [](dpc = "gather" /\ kind = "cli" => <>(dpc = "returned"))

\* ----------------------------------------------------------- agent.evaluate

\* The neutral score the evaluator stores when an evaluate call raises.
NeutralScore == 50

\* The score agent.evaluate returns from its own `except Exception`
\* (spawn failure, the 60 s wait_for expiring, an API error).
AgentNeutralScore == 50

\* The score _extract_score returns for an output with no number in it.
NoNumberScore == 50

\* The average of a lone response, and of a candidate nobody scored.
SingleResponseScore == 85
NoScoresAverage == 75

\* The irregular agent calls one evaluate_responses run may see: the queries
\* behind its responses that failed, and its evaluate calls that end
\* otherwise than with a number of the range 0..100.
MaxIrregular == 2

\* An evaluator's output text, as the integer numeral in it, if any ("N/A",
\* "80", "150"); the texts hold one numeral at most and no '.' character.
Outputs == {<<>>, <<80>>, <<150>>}

\* How one evaluate call ends, as the log keeps it: it failed (it raised out
\* of evaluate, or its external call failed or timed out inside evaluate), or
\* the external call printed an output.  n counts the calls.
Failed == [how |-> "failed", out |-> <<>>, n |-> 1]

Printed(o) == [how |-> "output", out |-> o, n |-> 1]

NotCalled == [how |-> "none", out |-> <<>>, n |-> 0]

\* The irregular calls of the run so far: the failed Responses under
\* evaluation, and the evaluate calls that failed or printed no number of
\* 0..100.
IrregularCalls ==
    Cardinality({i \in 1..Len(responses) : responses[i].error # "absent"})
    + Cardinality({c \in (1..Len(evalLog)) \X (1..N) :
        LET e == evalLog[c[1]][c[2]]
        IN /\ e.how # "none"
           /\ ~(e.how = "output" /\ e.out # <<>> /\ e.out[1] \in 0..100)})

\* An evaluate that stored the parsed number as it is.
Unclamped(x) == x

\* max(0, min(100, score)).
Clamp(x) == IF x > 100 THEN 100 ELSE IF x < 0 THEN 0 ELSE x

\* BaseCLIAgent._extract_score: the first number of the output, clamped; 50.0
\* when the output has none.
ExtractScore(out) == IF out = <<>> THEN NoNumberScore ELSE Clamp(out[1])

\* The value agent.evaluate returns for an output.  BaseCLIAgent.evaluate
\* clamps _extract_score's value; the native agents clamp float(<the digits
\* of the text>), and float('') raises ValueError into their own
\* `except Exception`, which returns 50.0.
AgentEvaluate(out) ==
    IF kind = "cli" THEN Clamp(ExtractScore(out))
    ELSE IF out = <<>> THEN AgentNeutralScore
    ELSE Clamp(out[1])

\* --------------------------------------------------- evaluate_responses

R == Len(responses)

\* An evaluator comparing the names as they are written.
SameAuthorCaseSensitive(j, i) == agents[j] = responses[i].agent_name

\* agent.name.lower() == response_to_eval.agent_name.lower()
SameAuthor(j, i) == lower(agents[j]) = lower(responses[i].agent_name)

\* An evaluator with no try/except around agent.evaluate.
CatchEvaluateErrorsOff == FALSE

\* The try/except around agent.evaluate in _create_evaluation_matrix.
CatchEvaluateErrors == TRUE

\* dict[key] = value
Put(d, k, v) == [x \in DOMAIN d \cup {k} |-> IF x = k THEN v ELSE d[x]]

EmptyDict == [x \in {} |-> 0]

\* sum(scores.values())
RECURSIVE SumOver(_, _)
SumOver(d, keys) ==
    IF keys = {} THEN 0
    ELSE LET k == CHOOSE x \in keys : TRUE IN d[k] + SumOver(d, keys \ {k})

\* _calculate_results: one EvaluationResult per response, in input order,
\* rank 0; `idx` is the index of the response in the input list.
CalculateResults ==
    [i \in 1..R |->
        LET scores == matrix[i] IN
        [response |-> responses[i],
         idx      |-> i,
         scores   |-> scores,
         num      |-> IF DOMAIN scores # {} THEN SumOver(scores, DOMAIN scores) ELSE NoScoresAverage,
         den      |-> IF DOMAIN scores # {} THEN Cardinality(DOMAIN scores) ELSE 1,
         rank     |-> 0]]

\* a.average_score < b.average_score
AvgLess(a, b) == a.num * b.den < b.num * a.den

\* A sort that places x before the elements equal to it.
InsertDescUnstable(sorted, x) ==
    LET notAbove == {k \in 1..Len(sorted) : ~AvgLess(x, sorted[k])}
        at       == IF notAbove = {} THEN Len(sorted) + 1
                    ELSE CHOOSE k \in notAbove : \A m \in notAbove : k <= m
    IN SubSeq(sorted, 1, at - 1) \o <<x>> \o SubSeq(sorted, at, Len(sorted))

\* x placed behind every element of `sorted` that is not below it.
InsertDesc(sorted, x) ==
    LET below == {k \in 1..Len(sorted) : AvgLess(sorted[k], x)}
        at    == IF below = {} THEN Len(sorted) + 1
                 ELSE CHOOSE k \in below : \A m \in below : k <= m
    IN SubSeq(sorted, 1, at - 1) \o <<x>> \o SubSeq(sorted, at, Len(sorted))

\* An evaluator that ranked the results in input order.
Unsorted(s) == s

\* results.sort(key=lambda x: x.average_score, reverse=True): descending and
\* stable (equal keys keep their input order).
RECURSIVE SortDesc(_)
SortDesc(s) ==
    IF s = <<>> THEN <<>>
    ELSE InsertDesc(SortDesc(SubSeq(s, 1, Len(s) - 1)), s[Len(s)])

\* for i, result in enumerate(results, 1): result.rank = i
AssignRanks(s) == [k \in 1..Len(s) |-> [s[k] EXCEPT !.rank = k]]

\* A lone response given the neutral score.
SingleResultNeutral ==
    <<[response |-> responses[1], idx |-> 1, scores |-> [x \in {"self"} |-> NeutralScore],
       num |-> NeutralScore, den |-> 1, rank |-> 1]>>

\* The result for a lone response.
SingleResult ==
    <<[response |-> responses[1], idx |-> 1, scores |-> [x \in {"self"} |-> SingleResponseScore],
       num |-> SingleResponseScore, den |-> 1, rank |-> 1]>>

\* evaluate_responses is called: an empty list and a lone response return
\* at once; otherwise the matrix loops start.
EvaluateResponses ==
    /\ epc = "idle"
    /\ IF R = 0
       THEN /\ epc' = "returned"
            /\ results' = <<>>
            /\ UNCHANGED <<ei, ej, matrix, evalLog>>
       ELSE IF R = 1
       THEN /\ epc' = "returned"
            /\ results' = SingleResult
            /\ UNCHANGED <<ei, ej, matrix, evalLog>>
       ELSE /\ epc' = "matrix"
            /\ ei' = 1
            /\ ej' = 1
            /\ matrix' = <<>>
            /\ evalLog' = [i \in 1..R |-> [j \in 1..N |-> NotCalled]]
            /\ UNCHANGED results
    /\ UNCHANGED notEval

\* One pass of the inner loop of _create_evaluation_matrix, for candidate ei
\* and agent ej: the row is created at the first agent; the author's namesake
\* is skipped; any other agent's evaluate is awaited and its score (or the
\* neutral score, if it raised) is stored under the agent's name.
EvaluateOne ==
    /\ epc = "matrix"
    /\ ei <= R
    /\ LET row0 == IF ej = 1 THEN EmptyDict ELSE matrix[ei]
           store(row) == IF ej = 1 THEN Append(matrix, row) ELSE [matrix EXCEPT ![ei] = row]
           advance == IF ej < N THEN /\ ej' = ej + 1
                                     /\ ei' = ei
                      ELSE /\ ej' = 1
                           /\ ei' = ei + 1
       IN IF SameAuthor(ej, ei)
          THEN /\ matrix' = store(row0)
               /\ advance
               /\ UNCHANGED <<epc, evalLog>>
          ELSE LET log(o) == [evalLog EXCEPT ![ei][ej] = [o EXCEPT !.n = evalLog[ei][ej].n + 1]]
                   cell(v) == /\ matrix' = store(Put(row0, agents[ej], v))
                              /\ advance
                              /\ UNCHANGED epc
                   regular(o) == o # <<>> /\ o[1] \in 0..100
               IN \/ \* evaluate raises (outside its try): the evaluator's except
                     /\ IrregularCalls < MaxIrregular
                     /\ evalLog' = log(Failed)
                     /\ IF CatchEvaluateErrors
                        THEN cell(NeutralScore)
                        ELSE /\ epc' = "raised"
                             /\ UNCHANGED <<ei, ej, matrix>>
                  \/ \* the external call fails or times out: evaluate's except
                     /\ IrregularCalls < MaxIrregular
                     /\ evalLog' = log(Failed)
                     /\ cell(AgentNeutralScore)
                  \/ \* the external call prints an output
                     \E o \in Outputs :
                        /\ regular(o) \/ IrregularCalls < MaxIrregular
                        /\ evalLog' = log(Printed(o))
                        /\ cell(AgentEvaluate(o))
    /\ UNCHANGED results
    /\ UNCHANGED notEval

\* The matrix is complete: the results are calculated, sorted, ranked and
\* returned.
EvaluateReturn ==
    /\ epc = "matrix"
    /\ ei > R
    /\ results' = AssignRanks(SortDesc(CalculateResults))
    /\ epc' = "returned"
    /\ UNCHANGED <<ei, ej, matrix, evalLog>>
    /\ UNCHANGED notEval

\* The Responses of the roster's first k agents, in roster order: what
\* dispatch_all (k = N) or dispatch_to_agents over those agents returns.
ResponsesOf(k) == [i \in 1..k |-> QueryOkResponse(i)]

InitEval ==
    /\ kind \in Kinds
    /\ agents \in SeqsUpTo(Names, MaxAgents)
    /\ responses \in {ResponsesOf(k) : k \in 0..N}
    /\ DispatcherIdle
    /\ EvaluatorIdle
    /\ QueryIdle
    /\ BackupIdle
    /\ ApplyIdle
    /\ ParserIdle
    /\ OrchestratorIdle

NextEval ==
    \/ EvaluateResponses
    \/ EvaluateOne
    \/ EvaluateReturn

SpecEval == InitEval /\ [][NextEval]_vars

\* ------------------------------------------------------ evaluator properties

\* evaluate_responses has returned from the matrix path (two responses or more).
Evaluated == epc = "returned" /\ R >= 2

\* The evaluate call of agent j on candidate i was made and no later agent
\* of the same name overwrote its cell.
LastWriter(i, j) ==
    /\ evalLog[i][j].n > 0
    /\ \A j2 \in (j + 1)..N : agents[j2] = agents[j] => evalLog[i][j2].n = 0

\* The value evaluate returned to the evaluator for a logged call that did
\* not raise out of evaluate.
Returned(e) == IF e.how = "failed" THEN AgentNeutralScore ELSE AgentEvaluate(e.out)

\* C4: with two responses or more, a candidate is scored by exactly the
\* roster agents whose name differs, ignoring case, from its author's: each of
\* them evaluates it exactly once, the author never evaluates its own
\* response, and the scores recorded are under exactly those agents' names.
C4_ScoredByExactlyTheOtherAgents ==
    Evaluated =>
        \A i \in 1..R :
            /\ \A j \in 1..N :
                  evalLog[i][j].n = IF lower(agents[j]) # lower(responses[i].agent_name) THEN 1 ELSE 0
            /\ evalLog[i][responses[i].by].n = 0
            /\ DOMAIN matrix[i] =
                  {agents[j] : j \in {x \in 1..N : lower(agents[x]) # lower(responses[i].agent_name)}}
            /\ \E k \in 1..R : results[k].idx = i /\ results[k].scores = matrix[i]

\* A run has returned in which an agent whose name differs from the author's
\* in case only was skipped, and another agent scored the candidate.
C4_Witness ==
    /\ Evaluated
    /\ \E i \in 1..R :
          /\ \E j \in 1..N : /\ agents[j] # responses[i].agent_name
                             /\ lower(agents[j]) = lower(responses[i].agent_name)
                             /\ evalLog[i][j].n = 0
          /\ \E j \in 1..N : evalLog[i][j].n = 1

\* C5: for two responses or more the ranks are exactly 1..N, and a result of
\* smaller rank never has a lower average score than one of larger rank.
C5_RanksFollowAverageScore ==
    Evaluated =>
        /\ Len(results) = R
        /\ {results[k].rank : k \in 1..R} = 1..R
        /\ \A a, b \in 1..R :
              results[a].rank < results[b].rank => ~AvgLess(results[a], results[b])

\* Three responses were ranked, and the best one was not the first of the
\* input list.
C5_Witness ==
    /\ Evaluated
    /\ R = 3
    /\ \E k \in 1..R : /\ results[k].rank = 1
                       /\ results[k].idx = 3
                       /\ \A m \in 1..R : m # k => AvgLess(results[m], results[k])

\* C6: evaluate_responses never raises, whatever evaluate calls fail, and
\* returns a list as long as its input that holds every input response
\* exactly once, each with a rank; the empty list gives the empty list.
C6_EveryResponseRankedOnce ==
    /\ epc # "raised"
    /\ epc = "returned" =>
          /\ Len(results) = R
          /\ \A i \in 1..R :
                /\ Cardinality({k \in 1..R : results[k].idx = i}) = 1
                /\ \A k \in 1..R : results[k].idx = i =>
                      /\ results[k].response = responses[i]
                      /\ results[k].rank \in 1..R

\* A run over three responses has returned in which two evaluate calls
\* failed and another one answered.
C6_Witness ==
    /\ epc = "returned"
    /\ R = 3
    /\ Cardinality({c \in (1..R) \X (1..N) : evalLog[c[1]][c[2]].how = "failed"}) >= 2
    /\ \E c \in (1..R) \X (1..N) : evalLog[c[1]][c[2]].how = "output"

\* The empty input list has returned the empty result list.
EmptyListEvaluated == epc = "returned" /\ R = 0 /\ results = <<>>

\* C7: when an evaluate call fails, the cell of its (candidate, evaluator)
\* pair holds the neutral 50.0, every other cell holds its own evaluator's
\* score, and evaluate_responses completes.
C7_FailedCellIsNeutralOthersKeepTheirScore ==
    /\ epc # "raised"
    /\ Evaluated =>
          \A i \in 1..R : \A j \in 1..N :
              evalLog[i][j].n > 0 =>
                  /\ agents[j] \in DOMAIN matrix[i]
                  /\ matrix[i][agents[j]] =
                        IF evalLog[i][j].how = "failed" THEN NeutralScore
                        ELSE AgentEvaluate(evalLog[i][j].out)

\* No two agents of the roster share a name.
UniqueNames == \A a, b \in 1..N : agents[a] = agents[b] => a = b

\* What does hold: the statement of C7 on a roster of distinct names.
FailedCellIsNeutralOnUniqueNames ==
    UniqueNames => C7_FailedCellIsNeutralOthersKeepTheirScore

Query ==
    /\ qpc = "idle"
    /\ qpc' = "running"
    /\ UNCHANGED <<best, dvars, evars, bvars, avars, pvars, ovars>>

\* Step 2: responses = await self.dispatcher.dispatch_all(...).
QueryDispatch ==
    /\ qpc = "running"
    /\ DispatchAll

\* Step 3: evaluation_results = await self.evaluator.evaluate_responses(
\* enhanced_prompt, responses), on the list dispatch_all returned.
QueryEvaluate ==
    /\ qpc = "running"
    /\ dpc = "returned"
    /\ EvaluateResponses

\* A get_best_solution that takes the last element of the list.
GetLastSolution(rs) == rs[Len(rs)]

\* get_best_solution: the first of the results sorted by average score,
\* descending; ValueError on an empty list.
GetBestSolution(rs) == SortDesc(rs)[1]

\* Step 4 and the return of the QueryResult.
QueryReturn ==
    /\ qpc = "running"
    /\ epc = "returned"
    /\ IF results = <<>>
       THEN /\ qpc' = "raised"
            /\ UNCHANGED best
       ELSE /\ qpc' = "returned"
            /\ best' = GetBestSolution(results).response
    /\ UNCHANGED <<dvars, evars, bvars, avars, pvars, ovars>>

\* An exception of dispatch_all or evaluate_responses leaves query.
QueryRaise ==
    /\ qpc = "running"
    /\ dpc = "raised" \/ epc = "raised"
    /\ qpc' = "raised"
    /\ UNCHANGED <<best, dvars, evars, bvars, avars, pvars, ovars>>

InitQuery == InitDispatch

NextQuery ==
    \/ Query
    \/ QueryDispatch
    \/ \E i \in 1..N : StartQuery(i)
    \/ \E i \in 1..N : ExtAnswer(i)
    \/ \E i \in 1..N : Timeout(i)
    \/ GatherReturn
    \/ QueryEvaluate
    \/ EvaluateOne
    \/ EvaluateReturn
    \/ QueryReturn
    \/ QueryRaise

SpecQuery == InitQuery /\ [][NextQuery]_vars

\* The event loop runs every ready step of the query; nothing obliges an
\* external process or service to answer, and only the subprocess-based
\* agents bound their evaluate call (wait_for, 60 s).
FairSpecQuery ==
    /\ SpecQuery
    /\ WF_vars(Query)
    /\ WF_vars(QueryDispatch)
    /\ \A i \in 1..MaxAgents : WF_vars(StartQuery(i))
    /\ \A i \in 1..MaxAgents : WF_vars(Timeout(i))
    /\ WF_vars(GatherReturn)
    /\ WF_vars(QueryEvaluate)
    /\ WF_vars(kind = "cli" /\ EvaluateOne)
    /\ WF_vars(EvaluateReturn)
    /\ WF_vars(QueryReturn)
    /\ WF_vars(QueryRaise)

\* A Response that reports a failure of its agent.
FailedResponse(r) == r.error # "absent"

\* What a returned query holds: one Response per agent, one ranked result per
\* Response, and every failed Response scored by each agent not named like
\* its author.
QueryResultComplete ==
    qpc = "returned" =>
        /\ Len(responses) = N
        /\ Len(results) = N
        /\ {results[k].rank : k \in 1..N} = 1..N
        /\ {results[k].idx : k \in 1..N} = 1..N
        /\ \A i \in 1..N :
              (N >= 2 /\ FailedResponse(responses[i])) =>
                  \A j \in 1..N :
                      lower(agents[j]) # lower(responses[i].agent_name) =>
                          /\ evalLog[i][j].n = 1
                          /\ agents[j] \in DOMAIN matrix[i]

\* C9: a query over N >= 1 agents, some of which fail or time out, does
\* not raise and completes; it yields N Responses and N ranked results, the
\* failed Responses scored by their peers.
C9_QueryCompletesDespiteFailedAgents ==
    /\ [](N >= 1 => qpc # "raised")
    /\ [](qpc = "running" /\ N >= 1 => <>(qpc = "returned"))
    /\ [](QueryResultComplete)

\* What does hold: a query never raises on a non-empty roster, and a
\* returned query is complete.
QueryNeverRaisesAndIsComplete ==
    /\ N >= 1 => qpc # "raised"
    /\ QueryResultComplete

\* What does hold: a query over subprocess-based agents completes.
SubprocessQueryCompletes ==
    [](qpc = "running" /\ N >= 1 /\ kind = "cli" => <>(qpc = "returned"))

\* A query over three agents has returned with a timed-out Response that
\* its peers scored.
QueryReturnedWithTimedOutAgent ==
    /\ qpc = "returned"
    /\ N = 3
    /\ \E i \in 1..N : /\ responses[i].error = "timeout"
                       /\ \E j \in 1..N : evalLog[i][j].n = 1

\* ------------------------------------------------------- backup manager

\* The clock's last second.
MaxTime == 1

\* The longest file_paths list given to create_backup, and to restore_backup.
MaxPaths == 1

MaxSelected == 1

\* The paths callers pass, relative to the working directory "/w" or
\* absolute: a source file, a file named like the manifest, and the
\* absolute spelling of the source file.
Paths == {"a.py", "manifest.json", "/w/a.py"}

\* Path.is_absolute().
IsAbsolute(p) == p = "/w/a.py"

\* Path.parent of working_dir / p, relative to the working directory: ""
\* is the working directory itself, which always exists.
ParentDir(p) == IF p = "sub/b.py" THEN "sub" ELSE ""

\* parent.mkdir(parents=True, exist_ok=True) for each path of P: the
\* directories that exist afterwards.
MkdirParents(d, P) == d \cup ({ParentDir(p) : p \in P} \ {""})

\* A location of the file system: a file of the working directory, or a
\* file under the directory of the backup named `name`.
WorkLoc(rel) == [root |-> "work", name |-> 0, rel |-> rel]

BackupLoc(name, rel) == [root |-> "backup", name |-> name, rel |-> rel]

\* A file outside the working directory, by its absolute path.
OutsideLoc(abs) == [root |-> "outside", name |-> 0, rel |-> abs]

\* Paths that lead out of the working directory "/w": an absolute path
\* elsewhere, and a relative one through the parent directory.
OutsidePaths == {"/etc/x.conf", "../c.py"}

\* self.working_dir / p: joining an absolute path replaces the base, and
\* ".." segments are kept as they are.
WorkingDirJoin(p) ==
    IF IsAbsolute(p) THEN WorkLoc("a.py")
    ELSE IF p = "/etc/x.conf" THEN OutsideLoc("/etc/x.conf")
    ELSE IF p = "../c.py" THEN OutsideLoc("/c.py")
    ELSE WorkLoc(p)

\* backup_path / p, likewise.
BackupPathJoin(name, p) == IF IsAbsolute(p) THEN WorkLoc("a.py") ELSE BackupLoc(name, p)

\* The files of the working directory that users edit, and what they write.
WorkFiles == {"a.py", "manifest.json"}

Versions == {<<"x">>, <<"x", "x">>}

\* File contents: user data, a sequence of characters, or the JSON text of
\* a manifest (its timestamp and its "files" list of original_path /
\* backup_path / size entries).
Data(v) == [kind |-> "data", v |-> v, files |-> <<>>]

ManifestText(ts, entries) == [kind |-> "manifest", v |-> ts, files |-> entries]

\* full_path.stat().st_size: the number of characters of a data file (one
\* byte each); the JSON text of a manifest is longer than the data files
\* here, and longer the more entries it lists.
StSize(c) == IF c.kind = "data" THEN Len(c.v) ELSE 3 + Len(c.files)

Exists(f, loc) == loc \in DOMAIN f

\* Writing a file: f with loc holding c.
WriteAt(f, loc, c) == [x \in DOMAIN f \cup {loc} |-> IF x = loc THEN c ELSE f[x]]

\* The lists of distinct paths of length n at most.
PathLists(n) == {l \in SeqsUpTo(Paths, n) : \A a, b \in 1..Len(l) : l[a] = l[b] => a = b}

\* datetime.now().strftime("%Y%m%d_%H%M%S"): the name of a backup is the
\* second it was made in.
BackupName == now

\* The loop of create_backup over file_paths[k..]: a path that does not
\* exist is skipped; copy2 onto the file itself raises SameFileError, which
\* the loop catches and reports; otherwise the file is copied under the
\* backup directory and entered in the manifest.
RECURSIVE CopyIntoBackup(_, _, _, _, _)
CopyIntoBackup(f, entries, fp, k, name) ==
    IF k > Len(fp) THEN [fs |-> f, entries |-> entries]
    ELSE LET full == WorkingDirJoin(fp[k])
             dst  == BackupPathJoin(name, fp[k])
         IN IF ~Exists(f, full) \/ dst = full
            THEN CopyIntoBackup(f, entries, fp, k + 1, name)
            ELSE CopyIntoBackup(WriteAt(f, dst, f[full]),
                                Append(entries, [original_path |-> fp[k], backup_path |-> dst.rel,
                                                 size |-> StSize(f[full])]),
                                fp, k + 1, name)

\* For the record: the file and content a create_backup([f]) call of an
\* existing file f is to preserve; NoSnapshot for any other call.
NoSnapshot == [path |-> "", content |-> Data(<<>>)]

Snapshot(fp) ==
    IF Len(fp) = 1 /\ Exists(fs, WorkingDirJoin(fp[1]))
    THEN [path |-> fp[1], content |-> fs[WorkingDirJoin(fp[1])]]
    ELSE NoSnapshot

\* create_backup(file_paths): the copies, then the manifest written at
\* backup_path / "manifest.json".
CreateBackupEffect(fp) ==
    LET name   == BackupName
        copied == CopyIntoBackup(fs, <<>>, fp, 1, name)
    IN /\ fs' = WriteAt(copied.fs, BackupLoc(name, "manifest.json"),
                        ManifestText(name, copied.entries))
       /\ taken' = [b \in DOMAIN taken \cup {name} |-> IF b = name THEN Snapshot(fp) ELSE taken[b]]
       /\ lastOp' = [NoOp EXCEPT !.op = "create", !.name = name]

CreateBackup(fp) ==
    /\ CreateBackupEffect(fp)
    /\ UNCHANGED <<now, dirs>>
    /\ UNCHANGED notBackup

\* `if file_paths and original_path not in file_paths`: None and the empty
\* list are both false.
Skipped(sel, p) == sel.given /\ sel.paths # <<>> /\ \A k \in 1..Len(sel.paths) : sel.paths[k] # p

\* A restore that makes the working directory a mirror of the backup: the
\* working files the manifest does not list are deleted.
CopyMirroringBackup(acc, entries, k, name, sel) ==
    [acc EXCEPT !.fs = [loc \in {x \in DOMAIN acc.fs :
                                    \/ x.root = "backup"
                                    \/ \E j \in 1..Len(entries) :
                                          x = WorkingDirJoin(entries[j].original_path)} |-> acc.fs[loc]]]

\* The loop of restore_backup over the manifest's entries [k..]: an entry not
\* selected is skipped; a copy that raises goes to "failed"; otherwise the
\* stored file is copied over the original path.
RECURSIVE CopyFromBackup(_, _, _, _, _)
CopyFromBackup(acc, entries, k, name, sel) ==
    IF k > Len(entries) THEN acc
    ELSE LET e      == entries[k]
             src    == BackupPathJoin(name, e.backup_path)
             target == WorkingDirJoin(e.original_path)
         IN IF Skipped(sel, e.original_path)
            THEN CopyFromBackup(acc, entries, k + 1, name, sel)
            ELSE IF ~Exists(acc.fs, src) \/ src = target
            THEN CopyFromBackup([acc EXCEPT !.failed = @ \cup {e.original_path}],
                                entries, k + 1, name, sel)
            ELSE CopyFromBackup([acc EXCEPT !.fs = WriteAt(@, target, acc.fs[src]),
                                            !.restored = @ \cup {e.original_path}],
                                entries, k + 1, name, sel)

\* A restore that takes a missing backup or manifest for an empty one.
ReadManifestOrNothing(f, name) ==
    LET mloc == BackupLoc(name, "manifest.json")
    IN [found |-> TRUE,
        files |-> IF Exists(f, mloc) /\ f[mloc].kind = "manifest" THEN f[mloc].files ELSE <<>>]

\* The head of restore_backup: the backup directory and its manifest.json
\* must exist, and the manifest must load.
ReadManifest(f, name) ==
    LET mloc == BackupLoc(name, "manifest.json")
    IN IF Exists(f, mloc) /\ f[mloc].kind = "manifest"
       THEN [found |-> TRUE, files |-> f[mloc].files]
       ELSE [found |-> FALSE, files |-> <<>>]

\* restore_backup(backup_name, file_paths): ValueError when the backup or
\* its manifest is missing; json.loads raises on a manifest.json that is
\* not a manifest.
RestoreBackupEffect(name, sel) ==
       LET m == ReadManifest(fs, name) IN
       IF ~m.found
       THEN /\ lastOp' = [NoOp EXCEPT !.op = "restore raised", !.name = name, !.sel = sel]
            /\ UNCHANGED <<fs, dirs>>
       ELSE LET done == CopyFromBackup([fs |-> fs, restored |-> {}, failed |-> {}],
                                       m.files, 1, name, sel)
            IN /\ fs' = done.fs
               /\ dirs' = MkdirParents(dirs, done.restored \cup done.failed)
               /\ lastOp' = [NoOp EXCEPT !.op = "restore", !.name = name, !.sel = sel,
                                         !.restored = done.restored, !.failed = done.failed]

RestoreBackup(name, sel) ==
    /\ RestoreBackupEffect(name, sel)
    /\ UNCHANGED <<now, taken>>
    /\ UNCHANGED notBackup

\* A user or a tool writes a file of the working directory.
WriteFile(f, v) ==
    /\ Exists(fs, WorkLoc(f)) => fs[WorkLoc(f)] # Data(v)
    /\ fs' = WriteAt(fs, WorkLoc(f), Data(v))
    /\ lastOp' = [NoOp EXCEPT !.op = "write"]
    /\ UNCHANGED <<now, taken, dirs>>
    /\ UNCHANGED notBackup

\* ... or deletes it.
DeleteFile(f) ==
    /\ Exists(fs, WorkLoc(f))
    /\ fs' = [x \in DOMAIN fs \ {WorkLoc(f)} |-> fs[x]]
    /\ lastOp' = [NoOp EXCEPT !.op = "delete"]
    /\ UNCHANGED <<now, taken, dirs>>
    /\ UNCHANGED notBackup

\* A second passes.
Tick ==
    /\ now < MaxTime
    /\ now' = now + 1
    /\ UNCHANGED <<fs, taken, lastOp, dirs>>
    /\ UNCHANGED notBackup

InitBackup ==
    /\ kind = "cli"
    /\ agents = <<>>
    /\ responses = <<>>
    /\ DispatcherIdle
    /\ EvaluatorIdle
    /\ QueryIdle
    /\ BackupIdle
    /\ ApplyIdle
    /\ ParserIdle
    /\ OrchestratorIdle

NextBackup ==
    \/ \E fp \in PathLists(MaxPaths) : CreateBackup(fp)
    \/ \E name \in 0..MaxTime : \E sel \in {NoneGiven} \cup {[given |-> TRUE, paths |-> l] : l \in PathLists(MaxSelected)} :
          RestoreBackup(name, sel)
    \/ \E f \in WorkFiles : \E v \in Versions : WriteFile(f, v)
    \/ \E f \in WorkFiles : DeleteFile(f)
    \/ Tick

SpecBackup == InitBackup /\ [][NextBackup]_vars

\* The last call was restore_backup(b) of a backup whose create_backup call
\* named the one file f, which existed then.
RestoredBackupOf(b, f) ==
    /\ lastOp.op = "restore"
    /\ lastOp.name = b
    /\ ~lastOp.sel.given
    /\ b \in DOMAIN taken
    /\ taken[b].path = f

\* C10: after create_backup([f]) of an existing file f, and whatever is done
\* to f afterwards, restore_backup of that backup leaves f with exactly the
\* content it had when the backup was taken.
C10_RestoreGivesBackTheBackedUpContent ==
    \A b \in 0..MaxTime : \A f \in Paths :
        RestoredBackupOf(b, f) =>
            /\ Exists(fs, WorkingDirJoin(f))
            /\ fs[WorkingDirJoin(f)] = taken[b].content

\* What does hold: the round trip of a relative path other than the
\* manifest's.
RestoreGivesBackOrdinaryRelativePath ==
    \A b \in 0..MaxTime : \A f \in Paths :
        (RestoredBackupOf(b, f) /\ ~IsAbsolute(f) /\ f # "manifest.json") =>
            /\ Exists(fs, WorkingDirJoin(f))
            /\ fs[WorkingDirJoin(f)] = taken[b].content

\* a.py was backed up, then deleted, and the restore has brought it back.
OrdinaryFileRestoredAfterDeletion ==
    /\ RestoredBackupOf(lastOp.name, "a.py")
    /\ lastOp.restored = {"a.py"}
    /\ Exists(fs, WorkLoc("a.py"))

\* A file stored under the backup directory.
Stored(loc) == loc.root = "backup"

\* C12: a snapshot once created is immutable: no create_backup call, however
\* soon after the one that made it, changes the manifest or a stored file of
\* an existing backup.
C12_CreateBackupLeavesExistingSnapshotsAlone ==
    [][(lastOp'.op = "create" /\ now' = now) =>
          \A loc \in DOMAIN fs :
              Stored(loc) => (loc \in DOMAIN fs' /\ fs'[loc] = fs[loc])]_vars

\* What does hold: a create_backup call leaves the backups of other seconds
\* alone.
CreateBackupLeavesOtherSecondsAlone ==
    [][(lastOp'.op = "create" /\ now' = now) =>
          \A loc \in DOMAIN fs :
              (Stored(loc) /\ loc.name # now) => (loc \in DOMAIN fs' /\ fs'[loc] = fs[loc])]_vars

\* ------------------------------------------- claims on the empty roster

\* C16: with no agent registered, dispatch_all raises the no-agents error
\* before any agent is invoked, and never returns an empty list.
C16_NoAgentsIsAnErrorNotAnEmptySuccess ==
    /\ N = 0 => /\ dpc \in {"idle", "raised"}
                /\ task = <<>>
                /\ proc = <<>>
                /\ dpc = "raised" => raisedErr = "ValueError"
    /\ dpc = "returned" => responses # <<>>

\* dispatch_all has raised on the empty roster.
C16_Witness ==
    /\ N = 0
    /\ dpc = "raised"
    /\ raisedErr = "ValueError"
    /\ responses = <<>>

\* ------------------------------------------------ claims on ties and on one

\* Two results have the same average score.
SameAverage(a, b) == ~AvgLess(a, b) /\ ~AvgLess(b, a)

\* C19: of two candidates with equal average score, the one that came
\* earlier in the input list gets the smaller rank.
C19_TiesKeepInputOrder ==
    Evaluated =>
        \A a, b \in 1..R :
            (SameAverage(results[a], results[b]) /\ results[a].idx < results[b].idx)
                => results[a].rank < results[b].rank

\* Three responses were ranked: the last one first, and the first two tied
\* behind it in their input order.
C19_Witness ==
    /\ Evaluated
    /\ R = 3
    /\ results[1].idx = 3
    /\ results[2].idx = 1
    /\ results[3].idx = 2
    /\ SameAverage(results[2], results[3])
    /\ AvgLess(results[2], results[1])

\* C20: for a list of exactly one response evaluate_responses returns one
\* result, of rank 1 and average score 85.0, and invokes no evaluator.
C20_LoneResponseGetsRankOneAnd85 ==
    (epc = "returned" /\ R = 1) =>
        /\ Len(results) = 1
        /\ results[1].response = responses[1]
        /\ results[1].rank = 1
        /\ results[1].num = 85 * results[1].den
        /\ evalLog = <<>>
        /\ matrix = <<>>

\* A lone response of a roster of three agents has been evaluated.
C20_Witness ==
    /\ epc = "returned"
    /\ R = 1
    /\ N = 3
    /\ Len(results) = 1

\* ---------------------------------------------------------- code parser

\* The longest response text, in pieces.
MaxTokens == 3

\* A response text is a sequence of pieces, each on lines of its own and
\* set off by blank lines: a mention of a file path (with the index of the
\* one FILE_PATTERNS entry that matches it), an operation keyword, a fenced
\* code block (its language tag, "" when it has none, and its code after
\* strip(), "" when there is none), or an indented code block.
Piece(t, path, pat, word, lang, code) ==
    [t |-> t, path |-> path, pat |-> pat, word |-> word, lang |-> lang, code |-> code]

\* "File: a.py" and "File: b.py" (pattern 1), "/w/a.py" (pattern 4, Unix
\* paths) and a bare "b.py" (pattern 5).
Mentions ==
    {Piece("mention", "a.py", 1, "", "", ""), Piece("mention", "b.py", 1, "", "", ""),
     Piece("mention", "/w/a.py", 4, "", "", ""), Piece("mention", "b.py", 5, "", "", "")}

Keywords == {Piece("keyword", "", 0, w, "", "") : w \in {"create", "modify", "delete"}}

\* Code that holds none of the words _generate_default_filename looks for.
Codes == {"", "x = 1", "class Foo"}

FencedBlocks == {Piece("block", "", 0, "", l, c) : l \in {"python", ""}, c \in Codes}

IndentedBlocks == {Piece("indented", "", 0, "", "", "x = 1")}

Pieces == Mentions \cup Keywords \cup FencedBlocks \cup IndentedBlocks

IsFenced(piece) == piece.t = "block"

IsIndented(piece) == piece.t = "indented"

\* (language, code) of a fenced block: no tag reads as 'text'.
FencedAsBlock(piece) == [language |-> IF piece.lang = "" THEN "text" ELSE piece.lang, code |-> piece.code]

IndentedAsBlock(piece) == [language |-> "text", code |-> piece.code]

\* _extract_code_blocks: the fenced blocks in order; only when there is
\* none, the indented ones.
ExtractCodeBlocks(txt) ==
    LET fenced   == SelectSeq(txt, IsFenced)
        indented == SelectSeq(txt, IsIndented)
    IN IF fenced # <<>>
       THEN [k \in 1..Len(fenced) |-> FencedAsBlock(fenced[k])]
       ELSE [k \in 1..Len(indented) |-> IndentedAsBlock(indented[k])]

\* full_response.split(code_block)[0]: the text before the FIRST place
\* where the block's code occurs, which is the first block carrying that
\* code.
TextBefore(txt, code) ==
    LET at == {j \in 1..Len(txt) : txt[j].t \in {"block", "indented"} /\ txt[j].code = code}
    IN IF at = {} THEN <<>>
       ELSE SubSeq(txt, 1, (CHOOSE j \in at : \A x \in at : j <= x) - 1)

\* _extract_file_path: the first pattern that matches anything gives its last
\* match; "" stands for None.
ExtractFilePath(tb) ==
    LET at(p) == {j \in 1..Len(tb) : tb[j].t = "mention" /\ tb[j].pat = p}
        pats  == {p \in 1..5 : at(p) # {}}
    IN IF pats = {} THEN ""
       ELSE LET p == CHOOSE x \in pats : \A y \in pats : x <= y
            IN tb[CHOOSE j \in at(p) : \A x \in at(p) : x <= j].path

\* _infer_file_path_from_code: a Python class gives <classname>.py.
InferFilePathFromCode(code, language) ==
    IF language = "python" /\ code = "class Foo" THEN "foo.py" ELSE ""

Numeral(k) == IF k = 1 THEN "1" ELSE IF k = 2 THEN "2" ELSE IF k = 3 THEN "3" ELSE IF k = 4 THEN "4" ELSE "5"

\* _generate_default_filename; index counts from 1 here.
GenerateDefaultFilename(code, language, index) ==
    "code_" \o Numeral(index) \o (IF language = "python" THEN ".py" ELSE ".txt")

\* _detect_operation_type: create before modify before delete, and create
\* when no keyword is there.
DetectOperationType(tb) ==
    LET words == {tb[j].word : j \in 1..Len(tb)}
    IN IF "create" \in words THEN "create"
       ELSE IF "modify" \in words THEN "modify"
       ELSE IF "delete" \in words THEN "delete"
       ELSE "create"

\* FileOperation(op_type, file_path, content, language); language "" stands
\* for None.
FileOperation(op_type, file_path, content, language) ==
    [op_type |-> op_type, file_path |-> file_path, content |-> content, language |-> language]

\* The path of a block by the fallback chain: mention, inference, default.
ResolvePath(tb, code, language, index) ==
    IF ExtractFilePath(tb) # "" THEN ExtractFilePath(tb)
    ELSE IF InferFilePathFromCode(code, language) # "" THEN InferFilePathFromCode(code, language)
    ELSE GenerateDefaultFilename(code, language, index)

\* _detect_operation_for_block, for a block whose code is not empty.
DetectOperationForBlock(txt, code, index, language) ==
    LET tb == TextBefore(txt, code)
    IN FileOperation(DetectOperationType(tb), ResolvePath(tb, code, language, index),
                     code, IF language = "text" THEN "" ELSE language)

\* str.split("") raises ValueError("empty separator"), and "" is `in` every
\* string: a block without code makes _detect_operation_for_block raise.
SplitRaises(code) == code = ""

\* parse_response: the operations of the blocks in order, unless one raises.
Parse(txt) ==
    LET blocks == ExtractCodeBlocks(txt)
    IN IF \E k \in 1..Len(blocks) : SplitRaises(blocks[k].code)
       THEN [status |-> "raised", ops |-> <<>>]
       ELSE [status |-> "returned",
             ops |-> [k \in 1..Len(blocks) |->
                         DetectOperationForBlock(txt, blocks[k].code, k, blocks[k].language)]]

ParseResponse ==
    /\ parsed.status = "none"
    /\ parsed' = Parse(response_text)
    /\ UNCHANGED <<response_text, calls, dvars, evars, qvars, bvars, avars, ovars>>

InitParse ==
    /\ kind = "cli"
    /\ agents = <<>>
    /\ responses = <<>>
    /\ DispatcherIdle
    /\ EvaluatorIdle
    /\ QueryIdle
    /\ BackupIdle
    /\ ApplyIdle
    /\ OrchestratorIdle
    /\ response_text \in SeqsUpTo(Pieces, MaxTokens)
    /\ parsed = NoParse
    /\ calls = <<>>

NextParse == ParseResponse

SpecParse == InitParse /\ [][NextParse]_vars

\* parse_response returned one operation per discovered block, in the order
\* of the blocks, each with a path.
OneOperationPerBlock ==
    LET blocks == ExtractCodeBlocks(response_text)
    IN /\ Len(parsed.ops) = Len(blocks)
       /\ \A k \in 1..Len(blocks) :
             /\ parsed.ops[k].content = blocks[k].code
             /\ parsed.ops[k].file_path # ""
             /\ parsed.ops[k].file_path \in
                   {ExtractFilePath(TextBefore(response_text, blocks[k].code)),
                    InferFilePathFromCode(blocks[k].code, blocks[k].language),
                    GenerateDefaultFilename(blocks[k].code, blocks[k].language, k)}

\* C15: parse_response never raises, whatever the text (a fenced block
\* without code included), and returns exactly one FileOperation per
\* discovered block, in order, each with a path from the fallback chain.
C15_ParseResponseNeverRaises ==
    /\ parsed.status # "raised"
    /\ parsed.status = "returned" => OneOperationPerBlock

\* A text holds a code block without code.
HasEmptyBlock == \E j \in 1..Len(response_text) : IsFenced(response_text[j]) /\ response_text[j].code = ""

\* What does hold: a text whose blocks all hold code is parsed without an
\* error, into one operation per block.
ParseOfBlocksWithCode ==
    ~HasEmptyBlock => /\ parsed.status # "raised"
                      /\ parsed.status = "returned" => OneOperationPerBlock

\* ------------------------------------------- CLI orchestrator start-up

\* CLIDispatcher.__init__: the agents given, or else the available ones
\* among the configured CLI tools (None and the empty list are both false).
DispatcherAgents(given, detected) == IF given # <<>> THEN given ELSE detected

\* _get_enhancer_agent: self.dispatcher.agents[0], an IndexError on the
\* empty roster.
GetEnhancerAgent(roster) == IF roster = <<>> THEN "IndexError" ELSE roster[1]

\* MultiAgentCLICoder.__init__, in the order of its statements: the
\* dispatcher, the evaluator, the enhancer agent, then the test for an empty
\* roster.
Construct(given, detected) ==
    /\ orch = "none"
    /\ LET roster == DispatcherAgents(given, detected)
       IN /\ agents' = roster
          /\ orch' = IF GetEnhancerAgent(roster) = "IndexError" THEN "IndexError"
                     ELSE IF roster = <<>> THEN "ValueError"
                     ELSE "constructed"
    /\ UNCHANGED <<kind, dpc, task, proc, doneOrder, responses, raisedErr>>
    /\ UNCHANGED <<evars, qvars, bvars, avars, pvars, asked, repl>>

InitStart ==
    /\ kind = "cli"
    /\ agents = <<>>
    /\ responses = <<>>
    /\ DispatcherIdle
    /\ EvaluatorIdle
    /\ QueryIdle
    /\ BackupIdle
    /\ ApplyIdle
    /\ ParserIdle
    /\ OrchestratorIdle

\* The orchestrator is constructed; once it is, its dispatcher runs.
NextStart ==
    \/ \E given, detected \in SeqsUpTo(Names, MaxAgents) : Construct(given, detected)
    \/ orch = "constructed" /\ DispatchAll
    \/ \E i \in 1..N : orch = "constructed" /\ StartQuery(i)
    \/ \E i \in 1..N : orch = "constructed" /\ ExtAnswer(i)
    \/ \E i \in 1..N : orch = "constructed" /\ Timeout(i)
    \/ orch = "constructed" /\ GatherReturn

SpecStart == InitStart /\ [][NextStart]_vars

\* C17: constructing the CLI orchestrator when no agent is available fails
\* with the explicit no-agents error (the ValueError that tells what to
\* install) and with no other kind of failure.
C17_NoAgentsFailsWithTheExplicitError ==
    (orch # "none" /\ agents = <<>>) => orch = "ValueError"

\* What does hold: the constructor fails exactly when no agent is available.
ConstructFailsIffNoAgents ==
    orch # "none" => (orch # "constructed" <=> agents = <<>>)

\* ------------------------------------------------- dispatch to a subset

\* The names callers ask for: one spells an agent's name, in lower case, and
\* one names no agent.
GivenNames == {"claude", "gemini"}

\* A filter that compares the names as they are spelt.
SelectedAgentsCaseSensitive(names) ==
    LET Test(i) == agents[i] \in names
    IN SelectSeq([i \in 1..N |-> i], Test)

\* selected_agents: the roster entries, in roster order, whose lower-cased
\* name is among the lower-cased agent_names (as roster indices).
SelectedAgents(names) ==
    LET Test(i) == lower(agents[i]) \in {lower(n) : n \in names}
    IN SelectSeq([i \in 1..N |-> i], Test)

\* dispatch_to_agents is called: no match is a ValueError, otherwise one
\* agent.query coroutine per selected agent is handed to gather.
DispatchToAgents(names) ==
    /\ dpc = "idle"
    /\ asked' = names
    /\ LET sel == SelectedAgents(names)
       IN IF sel = <<>>
          THEN /\ dpc' = "raised"
               /\ raisedErr' = "ValueError"
               /\ UNCHANGED <<task, proc>>
          ELSE /\ dpc' = "gather"
               /\ task' = [i \in 1..N |->
                              [st  |-> IF \E k \in 1..Len(sel) : sel[k] = i
                                       THEN "created" ELSE "unselected",
                               res |-> NoResult]]
               /\ proc' = [i \in 1..N |-> "none"]
               /\ UNCHANGED raisedErr
    /\ UNCHANGED <<kind, agents, doneOrder, responses>>
    /\ UNCHANGED <<evars, qvars, bvars, avars, pvars, orch, repl>>

\* gather over the selected tasks completes, and dispatch_to_agents returns
\* the wrapped list, slot k named after selected_agents[k].
GatherReturnSelected ==
    /\ dpc = "gather"
    /\ LET sel == SelectedAgents(asked)
       IN /\ \A k \in 1..Len(sel) : task[sel[k]].st = "done"
          /\ responses' = [k \in 1..Len(sel) |-> WrapResult(sel[k], task[sel[k]].res)]
    /\ dpc' = "returned"
    /\ UNCHANGED <<kind, agents, task, proc, doneOrder, raisedErr>>
    /\ UNCHANGED notDispatch

InitSubset == InitDispatch

NextSubset ==
    \/ \E names \in SUBSET GivenNames : DispatchToAgents(names)
    \/ \E i \in 1..N : StartQuery(i)
    \/ \E i \in 1..N : ExtAnswer(i)
    \/ \E i \in 1..N : Timeout(i)
    \/ GatherReturnSelected

SpecSubset == InitSubset /\ [][NextSubset]_vars

\* The roster indices whose name equals, ignoring case, one of the names
\* asked for.
Matching == {i \in 1..N : \E n \in asked : lower(agents[i]) = lower(n)}

\* agent.query of roster entry i was called.
Invoked(i) == i \in DOMAIN task /\ task[i].st # "unselected"

\* C18: dispatch_to_agents invokes exactly the roster agents whose name
\* equals, ignoring case, one of the given names, returns one Response per
\* such agent in roster order, and raises without invoking any agent when no
\* name matches.
C18_DispatchToAgentsSelectsByNameIgnoringCase ==
    /\ dpc \in {"gather", "returned"} =>
          /\ Matching # {}
          /\ \A i \in 1..N : Invoked(i) <=> i \in Matching
    /\ dpc = "returned" =>
          /\ Len(responses) = Cardinality(Matching)
          /\ \A k \in 1..Len(responses) :
                /\ responses[k].tag = "response"
                /\ responses[k].by \in Matching
                /\ responses[k].agent_name = agents[responses[k].by]
                /\ task[responses[k].by].st = "done"
          /\ \A k, l \in 1..Len(responses) : k < l => responses[k].by < responses[l].by
    /\ dpc = "raised" =>
          /\ Matching = {}
          /\ raisedErr = "ValueError"
          /\ task = <<>>
          /\ proc = <<>>

\* Two of three agents were asked for, the first of them in another case,
\* and both have answered.
C18_Witness ==
    /\ dpc = "returned"
    /\ N = 3
    /\ Matching = {1, 3}
    /\ agents[1] \notin asked
    /\ Len(responses) = 2
    /\ task[2].st = "unselected"

\* No agent is named like any of the names asked for, and the call raised.
C18_NoMatchRaised ==
    /\ dpc = "raised"
    /\ N = 3
    /\ asked # {}
    /\ Matching = {}

\* -------------------------------------------------------- apply_changes

\* The longest list of diffs given to apply_changes.
MaxDiffs == 2

\* The paths of the diffs: a file of the working directory and a file of
\* its subdirectory "sub".
ApplyPaths == {"a.py", "sub/b.py"}

\* A text, as the sequence of its characters: "x" is a run of ordinary
\* characters, "LF" a line feed and "CR" a carriage return.
OldText == <<"o">>

\* os.linesep, on POSIX.
LineSep == <<"LF">>

\* Path.write_text(text, encoding='utf-8'): the file is opened in text mode
\* with newline=None, which writes os.linesep for every line feed.  The
\* result is the file's bytes, character by character.
RECURSIVE WriteText(_)
WriteText(chars) ==
    IF chars = <<>> THEN <<>>
    ELSE (IF Head(chars) = "LF" THEN LineSep ELSE <<Head(chars)>>) \o WriteText(Tail(chars))

\* Path.read_text(encoding='utf-8'): text mode with newline=None reads
\* "\r\n" and a lone "\r" as "\n".
RECURSIVE ReadText(_)
ReadText(bytes) ==
    IF bytes = <<>> THEN <<>>
    ELSE IF Head(bytes) = "CR"
    THEN IF Len(bytes) >= 2 /\ bytes[2] = "LF"
         THEN <<"LF">> \o ReadText(SubSeq(bytes, 3, Len(bytes)))
         ELSE <<"LF">> \o ReadText(Tail(bytes))
    ELSE <<Head(bytes)>> \o ReadText(Tail(bytes))

\* FileDiff: its operation, file_path, old_content (<<"absent">> stands for
\* None) and new_content; unified_diff and stats play no part in
\* apply_changes.
FileDiff(operation, file_path, old_content, new_content) ==
    [operation |-> operation, file_path |-> file_path,
     old_content |-> old_content, new_content |-> new_content]

Absent == <<"absent">>

DiffsGiven == {FileDiff(o, p, Absent, <<"x">>) : o \in {"create", "modify", "delete"}, p \in ApplyPaths}

\* What the file system refuses while a diff is applied: nothing, making
\* the parent directory, or the unlink / write of the file.
Faults == {"none", "mkdir", "file"}

\* apply_changes without its try/except.
CatchApplyErrorsOff == FALSE

\* The try/except around the body of the loop of apply_changes.
CatchApplyErrors == TRUE

\* An exception in the body of the loop, the directories being d by then:
\* recorded in "failed" with str(e), and the loop goes on.
Failure(acc, diff, d) ==
    IF CatchApplyErrors
    THEN [acc EXCEPT !.dirs = d,
                     !.outcome = Append(@, "failed"),
                     !.failed = Append(@, [file |-> diff.file_path, error |-> "Permission denied"])]
    ELSE [acc EXCEPT !.dirs = d, !.pc = "raised"]

Remove(f, loc) == [x \in DOMAIN f \ {loc} |-> f[x]]

\* An apply_changes that ran for real whatever dry_run says.
DryRunIgnored(dry_run) == FALSE

\* The test `if dry_run:` at the head of the loop body.
DryRun(dry_run) == dry_run

\* The body of the loop for one diff: a dry run only reports; otherwise the
\* parent directory is made, then a Delete unlinks the file if it exists
\* and is skipped if not, and a Create or Modify writes new_content.
ApplyOne(acc, diff, dry_run, fault) ==
    LET loc  == WorkingDirJoin(diff.file_path)
        made == MkdirParents(acc.dirs, {diff.file_path})
        Success(f, d) == [acc EXCEPT !.fs = f, !.dirs = d,
                                     !.outcome = Append(@, "success"),
                                     !.success = Append(@, diff.file_path)]
    IN IF DryRun(dry_run) THEN Success(acc.fs, acc.dirs)
       ELSE IF fault = "mkdir" /\ made # acc.dirs THEN Failure(acc, diff, acc.dirs)
       ELSE IF diff.operation = "delete"
       THEN IF Exists(acc.fs, loc)
            THEN IF fault = "file" THEN Failure(acc, diff, made)
                 ELSE Success(Remove(acc.fs, loc), made)
            ELSE [acc EXCEPT !.dirs = made,
                             !.outcome = Append(@, "skipped"),
                             !.skipped = Append(@, diff.file_path)]
       ELSE IF fault = "file" THEN Failure(acc, diff, made)
       ELSE Success(WriteAt(acc.fs, loc, Data(WriteText(diff.new_content))), made)

\* The loop of apply_changes over diffs[k..].
RECURSIVE ApplyFrom(_, _, _, _, _)
ApplyFrom(acc, diffs, k, dry_run, faults) ==
    IF k > Len(diffs) \/ acc.pc = "raised" THEN acc
    ELSE ApplyFrom(ApplyOne(acc, diffs[k], dry_run, faults[k]), diffs, k + 1, dry_run, faults)

\* apply_changes(diffs, dry_run), the file system refusing what `faults`
\* says.
ApplyEffect(diffs, dry_run, faults) ==
    /\ applied.pc = "none"
    /\ LET done == ApplyFrom([fs |-> fs, dirs |-> dirs, pc |-> "returned", outcome |-> <<>>,
                              success |-> <<>>, failed |-> <<>>, skipped |-> <<>>],
                             diffs, 1, dry_run, faults)
       IN /\ fs' = done.fs
          /\ dirs' = done.dirs
          /\ applied' = [pc |-> done.pc, diffs |-> diffs, dry_run |-> dry_run, faults |-> faults,
                         outcome |-> done.outcome, success |-> done.success,
                         failed |-> done.failed, skipped |-> done.skipped]

ApplyChanges(diffs, dry_run, faults) ==
    /\ ApplyEffect(diffs, dry_run, faults)
    /\ UNCHANGED <<now, taken, lastOp, offer, diffed>>
    /\ UNCHANGED <<dvars, evars, qvars, pvars, ovars>>

\* A working tree: some of the files exist, and so does the directory of
\* each that does.
WorkingTree(paths, f, d) ==
    \E S \in SUBSET paths :
        /\ f = [loc \in {WorkLoc(q) : q \in S} |-> Data(OldText)]
        /\ d \in {x \in SUBSET {"sub"} : MkdirParents(x, S) = x}

InitApply ==
    /\ kind = "cli"
    /\ agents = <<>>
    /\ responses = <<>>
    /\ DispatcherIdle
    /\ EvaluatorIdle
    /\ QueryIdle
    /\ WorkingTree(ApplyPaths, fs, dirs)
    /\ now = 0
    /\ taken = <<>>
    /\ lastOp = NoOp
    /\ ApplyIdle
    /\ ParserIdle
    /\ OrchestratorIdle

NextApply ==
    /\ applied.pc = "none"
    /\ \E diffs \in SeqsUpTo(DiffsGiven, MaxDiffs) : \E dry_run \in BOOLEAN :
          \E faults \in [1..Len(diffs) -> Faults] : ApplyChanges(diffs, dry_run, faults)

SpecApply == InitApply /\ [][NextApply]_vars

\* The paths of the diffs whose outcome was o, in the order of the diffs.
PathsWith(o) ==
    LET Test(k) == applied.outcome[k] = o
        at == SelectSeq([k \in 1..Len(applied.diffs) |-> k], Test)
    IN [j \in 1..Len(at) |-> applied.diffs[at[j]].file_path]

\* Diff k was the last to succeed on its file.
LastSuccessOn(k) ==
    /\ applied.outcome[k] = "success"
    /\ \A l \in (k + 1)..Len(applied.diffs) :
          applied.diffs[l].file_path = applied.diffs[k].file_path => applied.outcome[l] # "success"

\* C13: apply_changes processes every diff even when earlier ones fail: it
\* returns; every diff has exactly one outcome, its path in the list of that
\* outcome; a failure is in "failed" with its error; and a diff that the file
\* system does not refuse is applied whatever failed before it.
C13_ApplyChangesProcessesEveryDiff ==
    applied.pc # "none" =>
        /\ applied.pc = "returned"
        /\ Len(applied.outcome) = Len(applied.diffs)
        /\ applied.success = PathsWith("success")
        /\ applied.skipped = PathsWith("skipped")
        /\ Len(applied.failed) = Len(PathsWith("failed"))
        /\ \A j \in 1..Len(applied.failed) :
              /\ applied.failed[j].file = PathsWith("failed")[j]
              /\ applied.failed[j].error # ""
        /\ Len(applied.success) + Len(applied.failed) + Len(applied.skipped) = Len(applied.diffs)
        /\ \A k \in 1..Len(applied.diffs) :
              /\ applied.faults[k] = "none" => applied.outcome[k] # "failed"
              /\ (~applied.dry_run /\ LastSuccessOn(k)) =>
                    LET loc == WorkingDirJoin(applied.diffs[k].file_path)
                    IN IF applied.diffs[k].operation = "delete"
                       THEN ~Exists(fs, loc)
                       ELSE Exists(fs, loc) /\ fs[loc] = Data(WriteText(applied.diffs[k].new_content))

\* The first of two diffs failed and the second, of another file, was
\* applied all the same.
C13_Witness ==
    /\ applied.pc = "returned"
    /\ ~applied.dry_run
    /\ applied.outcome = <<"failed", "success">>
    /\ applied.diffs[1].file_path # applied.diffs[2].file_path
    /\ Len(applied.failed) = 1
    /\ applied.success = <<applied.diffs[2].file_path>>

\* A call of apply_changes, not a dry run, whose diffs are all Deletes of
\* files that are absent, and to which the file system refuses nothing.
DeletesOfAbsentFiles ==
    /\ applied.pc = "none"
    /\ applied'.pc # "none"
    /\ ~applied'.dry_run
    /\ applied'.diffs # <<>>
    /\ \A k \in 1..Len(applied'.diffs) :
          /\ applied'.diffs[k].operation = "delete"
          /\ ~Exists(fs, WorkingDirJoin(applied'.diffs[k].file_path))
          /\ applied'.faults[k] = "none"

PureSkip ==
    /\ applied'.pc = "returned"
    /\ applied'.skipped = [k \in 1..Len(applied'.diffs) |-> applied'.diffs[k].file_path]
    /\ applied'.success = <<>>
    /\ applied'.failed = <<>>
    /\ fs' = fs
    /\ dirs' = dirs

\* C14: in a non-dry-run apply a Delete whose file is absent is a pure
\* skip: the path is in "skipped" and in no other list, no error is raised,
\* and no file and no directory of the working tree is changed.
C14_DeleteOfAbsentFileIsPureSkip == [][DeletesOfAbsentFiles => PureSkip]_vars

\* What does hold: the same, for files whose directory exists.
DeleteOfAbsentFileInExistingDirIsPureSkip ==
    [][(DeletesOfAbsentFiles
          /\ \A k \in 1..Len(applied'.diffs) : MkdirParents(dirs, {applied'.diffs[k].file_path}) = dirs)
       => PureSkip]_vars

\* ------------------------------------------------ select, back up, apply

\* The most Responses a query result holds when a selection is offered.
MaxOffered == 2

\* The longest of those Responses' texts, in pieces.
MaxOfferedTokens == 2

\* What the offered Responses are made of: "File: a.py", the absolute
\* "/w/a.py", the word "delete", and Python blocks with and without code.
OfferedPieces ==
    {Piece("mention", "a.py", 1, "", "", ""), Piece("mention", "/w/a.py", 4, "", "", ""),
     Piece("keyword", "", 0, "delete", "", ""),
     Piece("block", "", 0, "", "python", "x = 1"), Piece("block", "", 0, "", "python", "")}

OfferedTexts == SeqsUpTo(OfferedPieces, MaxOfferedTokens)

\* The characters of a code text.
CodeText(code) ==
    IF code = "" THEN <<>>
    ELSE IF code = "a\nb" THEN <<"x", "LF", "x">>
    ELSE IF code = "a\r\nb" THEN <<"x", "CR", "LF", "x">>
    ELSE IF code = "a\rb" THEN <<"x", "CR", "x">>
    ELSE <<"x">>

\* _generate_diff_for_operation: for a Modify or Delete the current file is
\* read, and old_content stays None when it is missing (or cannot be read);
\* new_content is the operation's content.
GenerateDiffForOperation(f, op) ==
    LET loc == WorkingDirJoin(op.file_path)
    IN FileDiff(op.op_type, op.file_path,
                IF op.op_type \in {"modify", "delete"} /\ Exists(f, loc) /\ f[loc].kind = "data"
                THEN ReadText(f[loc].v) ELSE Absent,
                CodeText(op.content))

\* generate_diffs: one FileDiff per operation, in the order of the
\* operations.
\* A generate_diffs that left out the operations whose file is missing.
GenerateDiffsOfExistingFiles(f, ops) ==
    LET Found(op) == op.op_type = "create" \/ Exists(f, WorkingDirJoin(op.file_path))
        kept == SelectSeq(ops, Found)
    IN [k \in 1..Len(kept) |-> GenerateDiffForOperation(f, kept[k])]

GenerateDiffs(f, ops) == [k \in 1..Len(ops) |-> GenerateDiffForOperation(f, ops[k])]

\* list(set(...)): the elements of S, once each, in some order.
ListsOfSet(S) == {l \in [1..Cardinality(S) -> S] : \A x \in S : \E k \in 1..Cardinality(S) : l[k] = x}

\* offer_solution_selection up to the selection prompt: the user declines,
\* or every Response is parsed and the files its operations name are backed
\* up (parse_response may raise, and no backup is made for no file).
OfferSolutionSelection(choice) ==
    /\ offer.pc = "offered"
    /\ IF ~choice
       THEN /\ offer' = [offer EXCEPT !.pc = "skipped"]
            /\ UNCHANGED <<fs, taken, lastOp>>
       ELSE LET parses == [k \in 1..Len(offer.texts) |-> Parse(offer.texts[k])]
                file_paths == UNION {{parses[k].ops[j].file_path : j \in 1..Len(parses[k].ops)} :
                                        k \in 1..Len(offer.texts)} \ {""}
            IN IF \E k \in 1..Len(offer.texts) : parses[k].status = "raised"
               THEN /\ offer' = [offer EXCEPT !.pc = "raised"]
                    /\ UNCHANGED <<fs, taken, lastOp>>
               ELSE IF file_paths = {}
               THEN /\ offer' = [offer EXCEPT !.pc = "selecting"]
                    /\ UNCHANGED <<fs, taken, lastOp>>
               ELSE /\ offer' = [offer EXCEPT !.pc = "selecting"]
                    /\ \E fp \in ListsOfSet(file_paths) : CreateBackupEffect(fp)
    /\ UNCHANGED <<now, dirs, applied, diffed>>
    /\ UNCHANGED <<dvars, evars, qvars, pvars, ovars>>

\* select_and_apply(..., dry_run=False) and the end of
\* offer_solution_selection: the user cancels (selection 0) or does not
\* confirm, and nothing is applied; the selected Response holds no
\* operation, and selected['agent_name'] raises KeyError; or the diffs of
\* the selected Response are applied.
SelectAndApply(selection, confirm) ==
    /\ offer.pc = "selecting"
    /\ IF selection = 0
       THEN /\ offer' = [offer EXCEPT !.pc = "nothing applied"]
            /\ UNCHANGED <<fs, dirs, applied>>
       ELSE LET operations == Parse(offer.texts[selection]).ops
                diffs == GenerateDiffs(fs, operations)
            IN IF operations = <<>>
               THEN /\ offer' = [offer EXCEPT !.pc = "raised", !.selected = selection]
                    /\ UNCHANGED <<fs, dirs, applied>>
               ELSE IF ~confirm
               THEN /\ offer' = [offer EXCEPT !.pc = "nothing applied", !.selected = selection]
                    /\ UNCHANGED <<fs, dirs, applied>>
               ELSE /\ offer' = [offer EXCEPT !.pc = "applied", !.selected = selection]
                    /\ \E faults \in [1..Len(diffs) -> Faults] : ApplyEffect(diffs, FALSE, faults)
    /\ diffed' = IF selection # 0 /\ Parse(offer.texts[selection]).ops # <<>>
                 THEN [pc |-> "returned", operations |-> Parse(offer.texts[selection]).ops,
                       diffs |-> GenerateDiffs(fs, Parse(offer.texts[selection]).ops)]
                 ELSE diffed
    /\ UNCHANGED <<now, taken, lastOp>>
    /\ UNCHANGED <<dvars, evars, qvars, pvars, ovars>>

InitLifecycle ==
    /\ kind = "cli"
    /\ agents = <<>>
    /\ responses = <<>>
    /\ DispatcherIdle
    /\ EvaluatorIdle
    /\ QueryIdle
    /\ WorkingTree({"a.py"}, fs, dirs)
    /\ now = 0
    /\ taken = <<>>
    /\ lastOp = NoOp
    /\ applied = NoApply
    /\ diffed = NoDiffs
    /\ \E n \in 1..MaxOffered : \E texts \in [1..n -> OfferedTexts] :
          offer = [pc |-> "offered", texts |-> texts, selected |-> 0]
    /\ ParserIdle
    /\ OrchestratorIdle

NextLifecycle ==
    \/ \E choice \in BOOLEAN : OfferSolutionSelection(choice)
    \/ \E selection \in 0..Len(offer.texts) : \E confirm \in BOOLEAN : SelectAndApply(selection, confirm)

SpecLifecycle == InitLifecycle /\ [][NextLifecycle]_vars

\* The backup made last holds the file at loc as it is now: its manifest
\* lists the file, and the stored copy has the file's content.
SnapshotHolds(loc) ==
    /\ lastOp.op = "create"
    /\ Exists(fs, BackupLoc(lastOp.name, "manifest.json"))
    /\ LET files == fs[BackupLoc(lastOp.name, "manifest.json")].files
       IN \E k \in 1..Len(files) :
             /\ WorkingDirJoin(files[k].original_path) = loc
             /\ Stored(BackupLoc(lastOp.name, files[k].backup_path))
             /\ Exists(fs, BackupLoc(lastOp.name, files[k].backup_path))
             /\ fs[BackupLoc(lastOp.name, files[k].backup_path)] = fs[loc]

\* A step that applies diffs for real.
AppliesForReal == applied.pc = "none" /\ applied'.pc # "none" /\ ~applied'.dry_run

\* C11: in a query lifecycle every non-dry-run apply is preceded by a backup
\* that snapshots every existing file the applied diffs touch: when apply
\* starts to write or delete, the backup is complete and holds each of those
\* files.
C11_ApplyIsPrecededByBackupOfTouchedFiles ==
    [][AppliesForReal =>
          /\ lastOp.op = "create"
          /\ \A k \in 1..Len(applied'.diffs) :
                LET loc == WorkingDirJoin(applied'.diffs[k].file_path)
                IN Exists(fs, loc) => SnapshotHolds(loc)]_vars

\* What does hold: a backup call precedes every apply, and it holds every
\* existing file that the diffs name by a relative path.
ApplyIsPrecededByBackupOfRelativePaths ==
    [][AppliesForReal =>
          /\ lastOp.op = "create"
          /\ \A k \in 1..Len(applied'.diffs) :
                LET loc == WorkingDirJoin(applied'.diffs[k].file_path)
                IN (Exists(fs, loc) /\ ~IsAbsolute(applied'.diffs[k].file_path)) => SnapshotHolds(loc)]_vars

\* ------------------------------------------------ claims on the average

\* The roster agents whose evaluate was called on candidate i.
Callers(i) == {j \in 1..N : evalLog[i][j].n > 0}

\* The score the evaluator got from the call of agent j on candidate i.
ReceivedScore(i, j) ==
    IF evalLog[i][j].how = "failed" THEN NeutralScore ELSE AgentEvaluate(evalLog[i][j].out)

\* Every roster agent is named, ignoring case, like the author of candidate i.
NoScorer(i) == \A j \in 1..N : lower(agents[j]) = lower(responses[i].agent_name)

\* The average of result k is 75.0 if its candidate has no scorer, and
\* otherwise the mean of the scores the evaluate calls on it gave.
MeanOfReceivedScores(k) ==
    LET i == results[k].idx
        received == [j \in 1..N |-> ReceivedScore(i, j)]
    IN /\ results[k].rank \in 1..R
       /\ results[k].den > 0
       /\ IF NoScorer(i)
          THEN results[k].num = NoScoresAverage * results[k].den
          ELSE /\ Callers(i) # {}
               /\ results[k].num * Cardinality(Callers(i))
                     = results[k].den * SumOver(received, Callers(i))

\* C21: a candidate that received no score (every roster agent matches its
\* author) gets the average 75.0 and is still ranked; any other candidate's
\* average is the arithmetic mean of the scores it received; nothing divides
\* by zero.
C21_AverageIsMeanOfReceivedScores ==
    /\ epc # "raised"
    /\ Evaluated => \A k \in 1..R : MeanOfReceivedScores(k)

\* What does hold: the same on a roster of distinct names.
AverageIsMeanOnUniqueNames == UniqueNames => C21_AverageIsMeanOfReceivedScores

\* On a roster of distinct names two candidates had no scorer and got 75.0.
NoScorerGot75 ==
    /\ Evaluated
    /\ UniqueNames
    /\ R = 2
    /\ \A k \in 1..R : NoScorer(k) /\ results[k].num = NoScoresAverage /\ results[k].den = 1

\* ----------------------------------------------------- get_best_solution

\* The ValueError of get_best_solution on an empty list.
NoResultsError == ExceptionResult("No evaluation results available", 0)

\* get_best_solution(results) on the list evaluate_responses returned: the
\* Response of the element it returns, or the error it raises.
BestSolution ==
    /\ epc = "returned"
    /\ best = NoResult
    /\ best' = IF results = <<>> THEN NoResultsError ELSE GetBestSolution(results).response
    /\ UNCHANGED <<qpc, dvars, evars, bvars, avars, pvars, ovars>>

NextBest ==
    \/ EvaluateResponses
    \/ EvaluateOne
    \/ EvaluateReturn
    \/ BestSolution

SpecBest == InitEval /\ [][NextBest]_vars

\* C22: get_best_solution applied to the list evaluate_responses returned
\* returns the element of rank 1, also when several results have the same
\* average score, and raises an error when the list is empty.
C22_BestSolutionIsTheRankOneElement ==
    best # NoResult =>
        /\ epc = "returned"
        /\ IF results = <<>>
           THEN best = NoResultsError
           ELSE \E k \in 1..Len(results) : results[k].rank = 1 /\ results[k].response = best

\* Of three results the first two have the same average, and the best
\* solution is the first.
C22_Witness ==
    /\ Evaluated
    /\ R = 3
    /\ SameAverage(results[1], results[2])
    /\ best = results[1].response
    /\ results[1].rank = 1

\* get_best_solution has raised on the empty list.
BestSolutionRaisedOnEmptyList == epc = "returned" /\ results = <<>> /\ best = NoResultsError

\* ------------------------------------------- generate_diffs, then apply

\* The contents of the operations given: two lines parted by a line feed,
\* and two lines parted by a carriage return and a line feed.
ContentsGiven == {"a\nb", "a\r\nb"}

OperationsGiven ==
    {FileOperation(t, q, c, "python") : t \in {"create", "modify", "delete"},
                                        q \in ApplyPaths, c \in ContentsGiven}

\* generate_diffs(operations) on the working tree as it is.
GenerateDiffsCall(ops) ==
    /\ diffed.pc = "none"
    /\ diffed' = [pc |-> "returned", operations |-> ops, diffs |-> GenerateDiffs(fs, ops)]
    /\ UNCHANGED <<applied, offer>>
    /\ UNCHANGED <<dvars, evars, qvars, bvars, pvars, ovars>>

\* apply_changes on the diffs generate_diffs returned.
ApplyGenerated(faults) ==
    /\ diffed.pc = "returned"
    /\ ApplyChanges(diffed.diffs, FALSE, faults)

\* The file system refuses the write or unlink of at most one diff of n.
OneFault(n) ==
    {faults \in [1..n -> {"none", "file"}] :
        \A j, k \in 1..n : (faults[j] = "file" /\ faults[k] = "file") => j = k}

InitDiff == InitApply

NextDiff ==
    \/ \E ops \in SeqsUpTo(OperationsGiven, MaxDiffs) : GenerateDiffsCall(ops)
    \/ \E faults \in OneFault(Len(diffed.diffs)) : ApplyGenerated(faults)

SpecDiff == InitDiff /\ [][NextDiff]_vars

\* The file of diff k, read back as the program reads files.
ReadBack(k) == ReadText(fs[WorkingDirJoin(applied.diffs[k].file_path)].v)

\* apply_changes has applied, to an empty working tree, the diff generated
\* for the one operation Create.
CreateApplied ==
    /\ applied.pc = "returned"
    /\ Len(diffed.operations) = 1
    /\ diffed.operations[1].op_type = "create"
    /\ applied.diffs = diffed.diffs
    /\ applied.outcome = <<"success">>
    /\ DOMAIN fs = {WorkingDirJoin(diffed.operations[1].file_path)}

\* C23: applying the diff computed for a Create operation with content C to
\* an empty working tree, then reading the file back, yields exactly C.
C23_CreateRoundTrip ==
    CreateApplied => ReadBack(1) = CodeText(diffed.operations[1].content)

\* What does hold: the round trip of a content without carriage return.
CreateRoundTripWithoutCarriageReturn ==
    (CreateApplied /\ \A j \in 1..Len(CodeText(diffed.operations[1].content)) :
                          CodeText(diffed.operations[1].content)[j] # "CR")
        => ReadBack(1) = CodeText(diffed.operations[1].content)

\* A two-line content without carriage return was created and reads back
\* as it was.
TwoLinesRoundTrip ==
    /\ CreateApplied
    /\ diffed.operations[1].content = "a\nb"
    /\ ReadBack(1) = <<"x", "LF", "x">>

\* The result of the loop body of apply_changes for one diff, in the
\* working tree as it is.
AppliedAlone(diff) ==
    ApplyOne([fs |-> fs, dirs |-> dirs, pc |-> "returned", outcome |-> <<>>,
              success |-> <<>>, failed |-> <<>>, skipped |-> <<>>], diff, FALSE, "none")

\* Diff k of the last generate_diffs call is a Modify of a missing file.
ModifyOfMissing(k) ==
    /\ diffed.diffs[k].operation = "modify"
    /\ diffed.diffs[k].old_content = Absent

\* C24: generate_diffs returns exactly one FileDiff per operation, in input
\* order, and returns also when the file of a Modify or Delete is missing:
\* the old content of that diff is absent, and applying such a Modify creates
\* the file with the new content, exactly as the Create of it would.
C24_OneDiffPerOperationInOrder ==
    diffed.pc # "none" =>
        /\ diffed.pc = "returned"
        /\ Len(diffed.diffs) = Len(diffed.operations)
        /\ \A k \in 1..Len(diffed.operations) :
              /\ diffed.diffs[k].operation = diffed.operations[k].op_type
              /\ diffed.diffs[k].file_path = diffed.operations[k].file_path
              /\ diffed.diffs[k].new_content = CodeText(diffed.operations[k].content)
              /\ diffed.diffs[k].operation = "create" => diffed.diffs[k].old_content = Absent
              /\ (applied.pc = "none" /\ diffed.diffs[k].operation \in {"modify", "delete"}) =>
                    IF Exists(fs, WorkingDirJoin(diffed.diffs[k].file_path))
                    THEN diffed.diffs[k].old_content = OldText
                    ELSE diffed.diffs[k].old_content = Absent
              /\ ModifyOfMissing(k) =>
                    AppliedAlone(diffed.diffs[k])
                        = AppliedAlone([diffed.diffs[k] EXCEPT !.operation = "create"])
              /\ (ModifyOfMissing(k) /\ applied.pc = "returned" /\ LastSuccessOn(k)) =>
                    LET loc == WorkingDirJoin(diffed.diffs[k].file_path)
                    IN Exists(fs, loc) /\ fs[loc] = Data(WriteText(diffed.diffs[k].new_content))

\* Two operations were given, the second a Modify of a missing file; its
\* diff was applied and the file now exists with the new content.
C24_Witness ==
    /\ applied.pc = "returned"
    /\ Len(diffed.operations) = 2
    /\ diffed.operations[1].file_path # diffed.operations[2].file_path
    /\ ModifyOfMissing(2)
    /\ applied.outcome[2] = "success"
    /\ Exists(fs, WorkingDirJoin(diffed.diffs[2].file_path))

\* A Delete of a missing file was given and has its diff, the old content
\* absent.
DeleteOfMissingHasDiff ==
    /\ diffed.pc = "returned"
    /\ applied.pc = "none"
    /\ \E k \in 1..Len(diffed.diffs) :
          /\ diffed.diffs[k].operation = "delete"
          /\ ~Exists(fs, WorkingDirJoin(diffed.diffs[k].file_path))
          /\ diffed.diffs[k].old_content = Absent

\* ------------------------------------------------------------ dry run

\* C25: apply_changes with dry_run returns every diff's path in "success",
\* in order, "failed" and "skipped" empty, and changes nothing in the
\* working tree: no file and no directory is created, written or deleted.
C25_DryRunChangesNothing ==
    [][applied'.dry_run =>
          /\ applied'.pc = "returned"
          /\ applied'.success = [k \in 1..Len(applied'.diffs) |-> applied'.diffs[k].file_path]
          /\ applied'.failed = <<>>
          /\ applied'.skipped = <<>>
          /\ fs' = fs
          /\ dirs' = dirs]_vars

\* A dry run of two diffs has returned: a write into a directory that does
\* not exist and a Delete of a file that exists, both of which the file
\* system would have refused.
C25_Witness ==
    /\ applied.pc = "returned"
    /\ applied.dry_run
    /\ Len(applied.diffs) = 2
    /\ applied.diffs[1].operation = "create"
    /\ applied.diffs[1].file_path = "sub/b.py"
    /\ "sub" \notin dirs
    /\ applied.diffs[2].operation = "delete"
    /\ Exists(fs, WorkingDirJoin(applied.diffs[2].file_path))
    /\ applied.faults[1] = "mkdir"
    /\ applied.faults[2] = "file"
    /\ applied.success = <<"sub/b.py", applied.diffs[2].file_path>>

\* ----------------------------------------------- claims on the manifest

\* The longest file_paths list given to create_backup here.
MaxBackedUp == 2

\* A working directory with some of the files users edit, in some version.
InitManifest ==
    /\ kind = "cli"
    /\ agents = <<>>
    /\ responses = <<>>
    /\ DispatcherIdle
    /\ EvaluatorIdle
    /\ QueryIdle
    /\ ApplyIdle
    /\ ParserIdle
    /\ OrchestratorIdle
    /\ \E S \in SUBSET WorkFiles : \E c \in [S -> Versions] :
          fs = [loc \in {WorkLoc(f) : f \in S} |-> Data(c[loc.rel])]
    /\ now = 0
    /\ taken = <<>>
    /\ lastOp = NoOp
    /\ dirs = {}

NextManifest ==
    \/ \E fp \in PathLists(MaxBackedUp) : CreateBackup(fp)
    \/ Tick

SpecManifest == InitManifest /\ [][NextManifest]_vars

\* The manifest of the backup that create_backup has just written.
LastManifest == fs[BackupLoc(lastOp.name, "manifest.json")]

\* The stored files of backup `name`, the manifest apart.
StoredFilesOf(f, name) ==
    {loc.rel : loc \in {l \in DOMAIN f : Stored(l) /\ l.name = name}} \ {"manifest.json"}

\* C26: create_backup skips the paths that do not exist and the copies that
\* fail, and returns; its manifest lists exactly the files copied into the
\* snapshot, each with its original path, stored relative path and size.
C26_ManifestListsExactlyTheStoredFiles ==
    lastOp.op = "create" =>
        /\ LastManifest.kind = "manifest"
        /\ \A k \in 1..Len(LastManifest.files) :
              LET e   == LastManifest.files[k]
                  loc == BackupLoc(lastOp.name, e.backup_path)
              IN /\ Exists(fs, loc)
                 /\ fs[loc].kind = "data"
                 /\ e.size = StSize(fs[loc])
        /\ \A rel \in StoredFilesOf(fs, lastOp.name) :
              \E k \in 1..Len(LastManifest.files) : LastManifest.files[k].backup_path = rel

\* What does hold: a create_backup that is the first of its second lists
\* exactly the existing relative paths it was given, each stored with the
\* content and the size it had, the file named like the manifest apart.
FirstBackupOfSecondListsWhatItStored ==
    [][(lastOp'.op = "create" /\ fs' # fs /\ BackupName \notin DOMAIN taken) =>
          LET m == fs'[BackupLoc(BackupName, "manifest.json")]
          IN /\ m.kind = "manifest"
             /\ \A k \in 1..Len(m.files) :
                   LET e == m.files[k]
                   IN /\ Exists(fs, WorkingDirJoin(e.original_path))
                      /\ ~IsAbsolute(e.original_path)
                      /\ e.backup_path = e.original_path
                      /\ e.size = StSize(fs[WorkingDirJoin(e.original_path)])
                      /\ e.original_path # "manifest.json" =>
                            fs'[BackupLoc(BackupName, e.backup_path)]
                                = fs[WorkingDirJoin(e.original_path)]
             /\ \A rel \in StoredFilesOf(fs', BackupName) :
                   \E k \in 1..Len(m.files) : m.files[k].backup_path = rel]_vars

\* A backup of two paths, one of which did not exist, lists the other.
MissingPathSkipped ==
    /\ lastOp.op = "create"
    /\ ~Exists(fs, WorkLoc("manifest.json"))
    /\ LastManifest.kind = "manifest"
    /\ LastManifest.files = <<[original_path |-> "a.py", backup_path |-> "a.py", size |-> 2]>>
    /\ fs[BackupLoc(lastOp.name, "a.py")] = Data(<<"x", "x">>)

\* -------------------------------------------------- claims on restore

\* The manifest of a backup is lost: a user or a tool removes it.
RemoveManifest(name) ==
    /\ Exists(fs, BackupLoc(name, "manifest.json"))
    /\ fs' = Remove(fs, BackupLoc(name, "manifest.json"))
    /\ lastOp' = [NoOp EXCEPT !.op = "remove manifest", !.name = name]
    /\ UNCHANGED <<now, taken, dirs>>
    /\ UNCHANGED notBackup

\* A backup is made of a working directory, the user then deletes a file
\* or the manifest is lost, and restore_backup is called, for the name of
\* that backup and for names no backup has.
NextRestore ==
    \/ \E fp \in PathLists(MaxBackedUp) : lastOp.op = "none" /\ CreateBackup(fp)
    \/ \E f \in WorkFiles : lastOp.op = "create" /\ DeleteFile(f)
    \/ \E name \in 0..MaxTime : lastOp.op \in {"create", "delete"} /\ RemoveManifest(name)
    \/ \E name \in 0..MaxTime :
          \E sel \in {NoneGiven} \cup {[given |-> TRUE, paths |-> l] : l \in PathLists(MaxSelected)} :
              lastOp.op # "none" /\ RestoreBackup(name, sel)

SpecRestore == InitManifest /\ [][NextRestore]_vars

\* The original paths the manifest of the backup last restored lists.
ListedPaths ==
    LET m == ReadManifest(fs, lastOp.name)
    IN {m.files[k].original_path : k \in 1..Len(m.files)}

SubsetGiven == {lastOp.sel.paths[k] : k \in 1..Len(lastOp.sel.paths)}

\* C27: restore_backup given a subset of paths, the empty one included,
\* writes only the manifest entries whose original path is in the subset:
\* the entries outside it are neither restored nor reported, those inside
\* are each restored or collected in "failed".
C27_RestoreWritesOnlyTheSubset ==
    (lastOp.op = "restore" /\ lastOp.sel.given) =>
        lastOp.restored \cup lastOp.failed = ListedPaths \cap SubsetGiven

\* What does hold: the same for the subsets that are not empty, and no
\* file_paths or an empty list restores every entry.
RestoreWritesOnlyANonEmptySubset ==
    lastOp.op = "restore" =>
        lastOp.restored \cup lastOp.failed
            = IF lastOp.sel.given /\ lastOp.sel.paths # <<>>
              THEN ListedPaths \cap SubsetGiven
              ELSE ListedPaths

\* A backup of two files was restored for one of them only.
OneOfTwoRestored ==
    /\ lastOp.op = "restore"
    /\ lastOp.sel = [given |-> TRUE, paths |-> <<"a.py">>]
    /\ ListedPaths = {"a.py", "manifest.json"}
    /\ lastOp.restored = {"a.py"}
    /\ lastOp.failed = {}
    /\ ~Exists(fs, WorkLoc("manifest.json"))

\* The backup directory `name` and its manifest.json exist.
ManifestExists(f, name) ==
    /\ Exists(f, BackupLoc(name, "manifest.json"))
    /\ f[BackupLoc(name, "manifest.json")].kind = "manifest"

\* C28: restore_backup for a backup name that does not exist, or whose
\* manifest is missing, raises an error to the caller and changes no file
\* in the working tree; nothing else is changed either, so the failure
\* affects that call only.
C28_RestoreOfMissingBackupRaises ==
    [][(lastOp'.op \in {"restore", "restore raised"} /\ ~ManifestExists(fs, lastOp'.name)) =>
          /\ lastOp'.op = "restore raised"
          /\ fs' = fs
          /\ dirs' = dirs
          /\ taken' = taken]_vars

\* restore_backup has raised for a backup whose directory holds a stored
\* file but no manifest, the working file deleted and another one there.
C28_Witness ==
    /\ lastOp.op = "restore raised"
    /\ ~Exists(fs, BackupLoc(lastOp.name, "manifest.json"))
    /\ Exists(fs, BackupLoc(lastOp.name, "a.py"))
    /\ ~Exists(fs, WorkLoc("a.py"))
    /\ Exists(fs, WorkLoc("manifest.json"))

\* restore_backup has raised for a name no backup was ever made under.
RestoreOfUnknownNameRaised ==
    /\ lastOp.op = "restore raised"
    /\ lastOp.name \notin DOMAIN taken
    /\ DOMAIN taken # {}

\* -------------------------------------------------- cleanup_old_backups

\* The seconds backups are made in here, and the largest keep_count.
MaxBackups == 3

MaxKeep == 2

\* The directories under backup_dir.
BackupDirs(f) == {loc.name : loc \in {l \in DOMAIN f : Stored(l)}}

\* The orders iterdir() may list the directories S in.
ListingOrders(S) ==
    {order \in [1..Cardinality(S) -> S] :
        \A a, b \in 1..Cardinality(S) : order[a] = order[b] => a = b}

\* manifest.get("timestamp") of backup `name`.
Timestamp(f, name) == f[BackupLoc(name, "manifest.json")].v

\* A sort that puts the oldest first.
RECURSIVE SortedOldestFirst(_, _)
SortedOldestFirst(names, f) ==
    IF names = <<>> THEN <<>>
    ELSE LET rest == SortedOldestFirst(Tail(names), f)
             Older(n) == Timestamp(f, n) < Timestamp(f, Head(names))
             NotOlder(n) == ~Older(n)
         IN SelectSeq(rest, Older) \o <<Head(names)>> \o SelectSeq(rest, NotOlder)

\* backups.sort(key=timestamp, reverse=True): newest first, those of equal
\* timestamp in the order they were listed in.
RECURSIVE SortedNewestFirst(_, _)
SortedNewestFirst(names, f) ==
    IF names = <<>> THEN <<>>
    ELSE LET rest == SortedNewestFirst(Tail(names), f)
             Newer(n) == Timestamp(f, n) > Timestamp(f, Head(names))
             NotNewer(n) == ~Newer(n)
         IN SelectSeq(rest, Newer) \o <<Head(names)>> \o SelectSeq(rest, NotNewer)

\* list_backups(): the directories that hold a manifest that loads, newest
\* first.
ListBackups(f, order) ==
    LET Listed(n) == ManifestExists(f, n)
    IN SortedNewestFirst(SelectSeq(order, Listed), f)

\* shutil.rmtree of the directories D.
Rmtree(f, D) == [loc \in {l \in DOMAIN f : ~(Stored(l) /\ l.name \in D)} |-> f[loc]]

\* cleanup_old_backups(keep_count): the backups after the first keep_count
\* of list_backups() are removed; a removal the file system refuses raises
\* inside the try and is passed over.
CleanupOldBackups(keep_count, order, refused) ==
    /\ LET backups == ListBackups(fs, order)
           old     == {backups[k] : k \in (keep_count + 1)..Len(backups)}
       IN fs' = Rmtree(fs, old \ refused)
    /\ lastOp' = [NoOp EXCEPT !.op = "cleanup", !.keep_count = keep_count, !.refused = refused]
    /\ UNCHANGED <<now, taken, dirs>>
    /\ UNCHANGED notBackup

\* A second passes, in a store of up to MaxBackups seconds.
CleanupTick ==
    /\ now < MaxBackups - 1
    /\ now' = now + 1
    /\ UNCHANGED <<fs, taken, lastOp, dirs>>
    /\ UNCHANGED notBackup

NextCleanup ==
    \/ lastOp.op \in {"none", "create"} /\ CreateBackup(<<"a.py">>)
    \/ lastOp.op \in {"none", "create"} /\ CleanupTick
    \/ \E name \in 0..(MaxBackups - 1) : lastOp.op = "create" /\ RemoveManifest(name)
    \/ \E keep_count \in 0..MaxKeep : \E order \in ListingOrders(BackupDirs(fs)) :
          \E refused \in {{}} \cup {{n} : n \in BackupDirs(fs)} :
              lastOp.op # "none" /\ CleanupOldBackups(keep_count, order, refused)

\* A working directory with a.py or without it.
InitCleanup == InitManifest /\ ~Exists(fs, WorkLoc("manifest.json"))

SpecCleanup == InitCleanup /\ [][NextCleanup]_vars

\* The backups list_backups() lists, and the k of them with the newest
\* timestamps.
Listed(f) == {n \in BackupDirs(f) : ManifestExists(f, n)}

Newest(k, f) ==
    {n \in Listed(f) : Cardinality({m \in Listed(f) : Timestamp(f, m) > Timestamp(f, n)}) < k}

RefusedRemovalLeftTheBackup ==
    /\ lastOp.op = "cleanup"
    /\ lastOp.keep_count = 1
    /\ lastOp.refused = {0}
    /\ Listed(fs) = {0, 1}

\* ------------------------------------------- parse_response, repeatedly

\* The most calls made on one CodeParser.
MaxCalls == 3

\* The texts parsed: one without a block; "File: a.py" and a block; the
\* word "delete", "File: b.py" and a block; two blocks that get default
\* file names; a class, which names its file; and a block without code.
RepeatedTexts ==
    {<<Piece("mention", "a.py", 1, "", "", "")>>,
     <<Piece("mention", "a.py", 1, "", "", ""), Piece("block", "", 0, "", "python", "x = 1")>>,
     <<Piece("keyword", "", 0, "delete", "", ""), Piece("mention", "b.py", 1, "", "", ""),
       Piece("block", "", 0, "", "python", "x = 1")>>,
     <<Piece("block", "", 0, "", "python", "x = 1"), Piece("block", "", 0, "", "", "x = 1")>>,
     <<Piece("block", "", 0, "", "python", "class Foo")>>,
     <<Piece("block", "", 0, "", "python", "")>>}

\* A parser that kept its list of operations on the instance: each call
\* returns the operations of the calls before it as well.
ParseAccumulating(history, txt) ==
    [status |-> Parse(txt).status,
     ops |-> (IF history = <<>> THEN <<>> ELSE history[Len(history)].result.ops) \o Parse(txt).ops]

\* parse_response(txt) on a CodeParser that has served the calls of
\* `history`: __init__ sets no attribute and no method assigns one, so the
\* result is that of a fresh parser.
ParseOnUsedParser(history, txt) == Parse(txt)

ParseCall(txt) ==
    /\ Len(calls) < MaxCalls
    /\ calls' = Append(calls, [text |-> txt, result |-> ParseOnUsedParser(calls, txt)])
    /\ UNCHANGED <<response_text, parsed>>
    /\ UNCHANGED <<dvars, evars, qvars, bvars, avars, ovars>>

\* The calls are made in a working directory that changes between them.
NextPure ==
    \/ \E txt \in RepeatedTexts : ParseCall(txt)
    \/ \E f \in WorkFiles : \E v \in Versions : WriteFile(f, v)
    \/ \E f \in WorkFiles : DeleteFile(f)

SpecPure == InitCleanup /\ [][NextPure]_vars

RaisedAlikeTwice ==
    /\ Len(calls) = 3
    /\ calls[1].text = calls[3].text
    /\ calls[1].result.status = "raised"
    /\ calls[2].result.status = "returned"
    /\ calls[3].result.status = "raised"

\* ------------------------------------------------------------ the REPL

\* The most lines executed in one REPL session.
MaxCommands == 2

\* The most Responses a query of the session brings back.
MaxAnswers == 1

\* A line typed at the prompt, after strip(), as its words. The commands
\* of the help text, one line each:
HelpCommands ==
    {<<"pwd">>, <<"cd", ".">>, <<"context">>, <<"agents">>, <<"set", "agents", "gemini">>,
     <<"set", "limit", "20">>, <<"set", "nocontext">>, <<"set", "context">>,
     <<"backup">>, <<"restore", "backup_0">>, <<"backups">>,
     <<"clear">>, <<"cls">>, <<"history">>, <<"help">>, <<"exit">>, <<"quit">>, <<"q">>}

\* Coding queries, with and without a flag; a command in capitals; a flag
\* alone; and the word of a command followed by a flag.
QueryLines ==
    {<<"Fix", "a.py">>, <<"Fix", "a.py", "!review">>, <<"Fix", "a.py", "!explain">>,
     <<"!review">>, <<"backup", "!review">>}

ReplLines == HelpCommands \cup QueryLines \cup {<<"HELP">>, <<"cd", "nowhere">>}

\* str.lower() on the words above.
LowerWord(w) == IF w = "HELP" THEN "help" ELSE IF w = "Fix" THEN "fix" ELSE w

\* The if/elif chain of execute: the handler a line reaches.
Handler(line) ==
    LET first == LowerWord(line[1])
        alone == Len(line) = 1
    IN IF alone /\ first \in {"exit", "quit", "q"} THEN "cmd_exit"
       ELSE IF alone /\ first = "help" THEN "cmd_help"
       ELSE IF alone /\ first \in {"clear", "cls"} THEN "cmd_clear"
       ELSE IF alone /\ first = "agents" THEN "cmd_agents"
       ELSE IF alone /\ first = "pwd" THEN "cmd_pwd"
       ELSE IF ~alone /\ first = "cd" THEN "cmd_cd"
       ELSE IF alone /\ first = "history" THEN "cmd_history"
       ELSE IF alone /\ first = "context" THEN "cmd_context"
       ELSE IF ~alone /\ first = "set" THEN "cmd_set"
       ELSE IF alone /\ first = "backup" THEN "cmd_backup"
       ELSE IF ~alone /\ first = "restore" THEN "cmd_restore"
       ELSE "cmd_query"

\* "!review" in prompt or "!explain" in prompt.
Flagged(line) == \E k \in 1..Len(line) : line[k] \in {"!review", "!explain"}

\* prompt.replace("!review", "").replace("!explain", "").strip()
CleanPrompt(line) ==
    LET NoFlag(w) == w \notin {"!review", "!explain"} IN SelectSeq(line, NoFlag)

\* A cmd_query that offered the apply for every query.
OffersApplyAlways(line) == TRUE

\* `if not review_only and not explain_only`: the apply is offered.
OffersApply(line) == ~Flagged(line)

\* The contents of the Responses a query brings back: "File: a.py" with a
\* block, the word "delete" with the same, and a block without code.
AnswerTexts ==
    {<<Piece("mention", "a.py", 1, "", "", ""), Piece("block", "", 0, "", "python", "x = 1")>>,
     <<Piece("keyword", "", 0, "delete", "", ""), Piece("mention", "a.py", 1, "", "", ""),
       Piece("block", "", 0, "", "python", "x = 1")>>,
     <<Piece("block", "", 0, "", "python", "")>>}

\* glob("**/*.py"): the Python files of the working directory.
PyFiles(f) == {q \in ApplyPaths : Exists(f, WorkLoc(q))}

\* The backup a name of the restore command stands for.
BackupNamed(w) == IF w = "backup_0" THEN 0 ELSE 1

\* execute(input_text): the line goes to the history and to its handler.
\* `texts` are the Responses a query brings back and `gathered` says
\* whether gather_context finds a context.
Execute(line, texts, gathered) ==
    LET h == Handler(line)
        option == IF h = "cmd_set" THEN LowerWord(line[2]) ELSE ""
        asks == h = "cmd_query" /\ CleanPrompt(line) # <<>>
        displayRaises == \E k \in 1..Len(texts) : Parse(texts[k]).status = "raised"
        offers == asks /\ ~displayRaises /\ OffersApply(line)
        gathers == \/ h = "cmd_cd" /\ line[2] = "."
                   \/ h = "cmd_set" /\ option \in {"limit", "context"}
    IN /\ repl.running
       /\ repl.history_len < MaxCommands
       /\ offer.pc \notin {"offered", "selecting"}
       /\ ~asks => texts = <<>>
       /\ asks => texts # <<>>
       /\ ~gathers => gathered
       /\ repl' = [repl EXCEPT !.history_len = @ + 1,
                               !.last = line,
                               !.handler = h,
                               !.running = IF h = "cmd_exit" THEN FALSE ELSE @,
                               !.context = IF gathers /\ gathered THEN TRUE
                                           ELSE IF option = "nocontext" THEN FALSE ELSE @,
                               !.queried = asks,
                               !.raised = asks /\ displayRaises]
       /\ IF h = "cmd_backup" /\ PyFiles(fs) # {}
          THEN /\ \E fp \in ListsOfSet(PyFiles(fs)) : CreateBackupEffect(fp)
               /\ UNCHANGED dirs
          ELSE IF h = "cmd_restore" /\ ManifestExists(fs, BackupNamed(line[2]))
          THEN /\ RestoreBackupEffect(BackupNamed(line[2]), NoneGiven)
               /\ UNCHANGED taken
          ELSE UNCHANGED <<fs, dirs, taken, lastOp>>
       /\ IF offers
          THEN /\ offer' = [pc |-> "offered", texts |-> texts, selected |-> 0]
               /\ applied' = NoApply
               /\ diffed' = NoDiffs
          ELSE UNCHANGED <<offer, applied, diffed>>
       /\ UNCHANGED <<now, orch, asked>>
       /\ UNCHANGED <<dvars, evars, qvars, pvars>>

InitRepl ==
    /\ kind = "cli"
    /\ agents = <<>>
    /\ responses = <<>>
    /\ DispatcherIdle
    /\ EvaluatorIdle
    /\ QueryIdle
    /\ WorkingTree({"a.py"}, fs, dirs)
    /\ now = 0
    /\ taken = <<>>
    /\ lastOp = NoOp
    /\ ApplyIdle
    /\ ParserIdle
    /\ OrchestratorIdle

NextRepl ==
    \/ \E line \in ReplLines : \E texts \in SeqsUpTo(AnswerTexts, MaxAnswers) :
          \E gathered \in BOOLEAN : Execute(line, texts, gathered)
    \/ \E choice \in BOOLEAN : OfferSolutionSelection(choice)
    \/ \E selection \in 0..Len(offer.texts) : \E confirm \in BOOLEAN : SelectAndApply(selection, confirm)

SpecRepl == InitRepl /\ [][NextRepl]_vars

\* The handler the help text promises for each of its commands.
OwnHandler(line) ==
    IF line = <<"backups">> THEN "cmd_backups"
    ELSE IF line[1] \in {"exit", "quit", "q"} THEN "cmd_exit"
    ELSE IF line[1] = "cls" THEN "cmd_clear"
    ELSE IF line[1] = "backup" THEN "cmd_backup"
    ELSE IF line[1] = "restore" THEN "cmd_restore"
    ELSE IF line[1] = "cd" THEN "cmd_cd"
    ELSE IF line[1] = "set" THEN "cmd_set"
    ELSE IF line[1] = "pwd" THEN "cmd_pwd"
    ELSE IF line[1] = "context" THEN "cmd_context"
    ELSE IF line[1] = "agents" THEN "cmd_agents"
    ELSE IF line[1] = "clear" THEN "cmd_clear"
    ELSE IF line[1] = "history" THEN "cmd_history"
    ELSE "cmd_help"

\* C31: every command of the REPL help, `backups` and `set agents <list>`
\* included, is handled by its own handler with the effect the help
\* describes, and is never sent to the agents as a coding query.
C31_HelpCommandsHaveTheirHandlers ==
    repl.last \in HelpCommands =>
        /\ repl.handler = OwnHandler(repl.last)
        /\ ~repl.queried
        /\ repl.last = <<"set", "agents", "gemini">> => repl.agents_used = {"gemini"}
        /\ repl.last = <<"set", "limit", "20">> => repl.limit = 20

\* What does hold: every command of the help but `backups` reaches its
\* handler and is not sent to the agents; exit stops the loop and
\* `set nocontext` drops the context.
HelpCommandsButBackupsReachTheirHandlers ==
    (repl.last \in HelpCommands /\ repl.last # <<"backups">>) =>
        /\ repl.handler = OwnHandler(repl.last)
        /\ ~repl.queried
        /\ repl.handler = "cmd_exit" => ~repl.running
        /\ repl.last = <<"set", "nocontext">> => ~repl.context

\* `backups` was sent to the agents as a coding query, and the apply of
\* its answers is offered.
BackupsSentAsQuery ==
    /\ repl.last = <<"backups">>
    /\ repl.handler = "cmd_query"
    /\ repl.queried
    /\ offer.pc = "offered"

\* A step of execute on a query that carries !review or !explain.
FlaggedQueryStep ==
    /\ repl'.history_len = repl.history_len + 1
    /\ repl'.handler = "cmd_query"
    /\ Flagged(repl'.last)

\* C32: a query carrying !review or !explain never changes the working
\* tree: its step creates no backup, writes and deletes no file and
\* offers no apply, and none is open while it is the last line executed.
C32_FlaggedQueryChangesNothing ==
    /\ [][FlaggedQueryStep => UNCHANGED <<fs, dirs, taken, lastOp, offer, applied, diffed>>]_vars
    /\ []((repl.handler = "cmd_query" /\ Flagged(repl.last)) => offer.pc \notin {"offered", "selecting"})

\* A flagged query was answered and displayed, after an apply of an
\* earlier query had changed the tree.
C32_Witness ==
    /\ Flagged(repl.last)
    /\ repl.queried
    /\ ~repl.raised
    /\ offer.pc = "applied"
    /\ Exists(fs, WorkLoc("a.py"))

\* ------------------------------------------- concurrency of the agent calls

\* The evaluators of candidate i: the roster entries the inner loop does
\* not skip.
EvaluatorsOf(i) == {j \in 1..N : ~SameAuthor(j, i)}

\* The evaluate call of roster entry j on candidate i has been started;
\* `score = await agent.evaluate(...)` is one step of the loop, so a call
\* that was started has completed before the loop goes on.
EvaluateStarted(i, j) == i \in 1..Len(evalLog) /\ evalLog[i][j].n > 0

EvaluateCompleted(i, j) == EvaluateStarted(i, j)

\* C33: for each candidate, the evaluate calls of all its evaluators are in
\* flight together: when one of them has completed, every other one has
\* been started.
C33_EvaluatorsOfACandidateRunConcurrently ==
    \A i \in 1..R : \A j \in EvaluatorsOf(i) :
        EvaluateCompleted(i, j) => \A j2 \in EvaluatorsOf(i) : EvaluateStarted(i, j2)

\* What does hold: the calls run one after another in loop order, so a
\* call is started only when every call before it has completed.
EvaluateCallsAreSequential ==
    \A i \in 1..R : \A j \in EvaluatorsOf(i) :
        EvaluateStarted(i, j) =>
            /\ \A j0 \in EvaluatorsOf(i) : j0 < j => EvaluateCompleted(i, j0)
            /\ \A i0 \in 1..(i - 1) : \A j0 \in EvaluatorsOf(i0) : EvaluateCompleted(i0, j0)

\* The first evaluator of a candidate has completed and the second one
\* has not been started.
SecondEvaluatorWaitsForTheFirst ==
    /\ epc = "matrix"
    /\ \E i \in 1..R : \E j, j2 \in EvaluatorsOf(i) :
          /\ j < j2
          /\ EvaluateCompleted(i, j)
          /\ ~EvaluateStarted(i, j2)

\* Task i ended with the timeout Response.
TimedOut(i) == task[i].st = "done" /\ task[i].res = QueryTimeoutResponse(i)

\* C34: when an agent task times out its external process is cancelled (it
\* is no longer running once the failed Response exists), and the timeout
\* leaves every sibling task and process as it was.
C34_TimedOutProcessIsCancelled ==
    /\ [](\A i \in DOMAIN task : TimedOut(i) => proc[i] # "running")
    /\ [][\A i \in DOMAIN task : (~TimedOut(i) /\ TimedOut(i)') =>
             \A j \in DOMAIN task \ {i} : task'[j] = task[j] /\ proc'[j] = proc[j]]_vars

\* What does hold: a timeout leaves every sibling task and process as it
\* was.
TimeoutLeavesSiblingsAlone ==
    [][\A i \in DOMAIN task : (~TimedOut(i) /\ TimedOut(i)') =>
          \A j \in DOMAIN task \ {i} : task'[j] = task[j] /\ proc'[j] = proc[j]]_vars

\* dispatch_all has returned a timeout Response whose process still runs,
\* next to a sibling that answered.
TimedOutProcessStillRuns ==
    /\ dpc = "returned"
    /\ \E i, j \in 1..N : /\ TimedOut(i)
                          /\ proc[i] = "running"
                          /\ responses[j] = QueryOkResponse(j)

\* The largest roster of the query whose two barriers are followed.
MaxRoster == 2

\* One query of an orchestrator of subprocess agents, from dispatch_all to
\* the ranked results.
InitBarrier ==
    /\ InitDispatch
    /\ kind = "cli"
    /\ Len(agents) <= MaxRoster

SpecBarrier == InitBarrier /\ [][NextQuery]_vars

\* C35: dispatch_all and evaluate_responses hand their list to the caller
\* only after every task they started has finished: while they run the
\* caller's list is empty, and when they have returned every query task is
\* done, every evaluate call of the loops has been made, and the list is
\* complete.
C35_ResultsOnlyAfterEveryTaskFinished ==
    /\ dpc = "gather" => responses = <<>>
    /\ dpc = "returned" => /\ \A i \in 1..N : task[i].st = "done"
                           /\ Len(responses) = N
    /\ epc = "matrix" => results = <<>>
    /\ (epc = "returned" /\ R >= 2) =>
          /\ \A i \in 1..R : \A j \in EvaluatorsOf(i) : EvaluateCompleted(i, j)
          /\ Len(matrix) = R
          /\ Len(results) = R

\* Both lists were returned; the tasks completed out of roster order and
\* one of them timed out.
C35_Witness ==
    /\ dpc = "returned"
    /\ epc = "returned"
    /\ R >= 2
    /\ doneOrder[1] # 1
    /\ \E i \in 1..N : TimedOut(i)

\* ------------------------------------------ path and kind of a block

\* The places of the blocks parse_response discovers in a text, in order.
BlockPlaces(txt) ==
    LET t == IF \E j \in 1..Len(txt) : txt[j].t = "block" THEN "block" ELSE "indented"
        IsPlace(j) == txt[j].t = t
    IN SelectSeq([j \in 1..Len(txt) |-> j], IsPlace)

\* The text that precedes the k-th discovered block.
Preceding(txt, k) == SubSeq(txt, 1, BlockPlaces(txt)[k] - 1)

\* The path mentions of a text, whichever pattern recognizes them.
MentionsIn(tb) == {j \in 1..Len(tb) : tb[j].t = "mention"}

\* The mention of a text closest to its end.
ClosestMention(tb) == tb[CHOOSE j \in MentionsIn(tb) : \A x \in MentionsIn(tb) : x <= j].path

\* C36: the path assigned to a block is the last path mention in the text
\* that precedes the block, over all patterns together: the mention
\* closest to the block wins whichever pattern recognized it.
C36_ClosestMentionWins ==
    parsed.status = "returned" =>
        \A k \in 1..Len(parsed.ops) :
            MentionsIn(Preceding(response_text, k)) # {} =>
                parsed.ops[k].file_path = ClosestMention(Preceding(response_text, k))

\* No code of the text occurs in two blocks.
CodesOccurOnce ==
    \A j, j2 \in 1..Len(response_text) :
        (/\ j # j2
         /\ response_text[j].t \in {"block", "indented"}
         /\ response_text[j2].t \in {"block", "indented"}) => response_text[j].code # response_text[j2].code

\* What does hold: when no code repeats and one pattern recognizes every
\* mention before the block, the closest mention is the block's path.
ClosestMentionOfOnePatternWins ==
    (parsed.status = "returned" /\ CodesOccurOnce) =>
        \A k \in 1..Len(parsed.ops) :
            LET tb == Preceding(response_text, k)
            IN (/\ MentionsIn(tb) # {}
                /\ \A j, j2 \in MentionsIn(tb) : tb[j].pat = tb[j2].pat) =>
                   parsed.ops[k].file_path = ClosestMention(tb)

\* "File: a.py", then a bare "b.py", then a block: the block got a.py.
FartherMentionOfEarlierPatternWon ==
    /\ parsed.status = "returned"
    /\ response_text = <<Piece("mention", "a.py", 1, "", "", ""), Piece("mention", "b.py", 5, "", "", ""),
                         Piece("block", "", 0, "", "python", "x = 1")>>
    /\ parsed.ops[1].file_path = "a.py"

\* The kind the keyword families give a text: Create before Modify before
\* Delete, and Create when no keyword is there.
KindByFamilies(tb) ==
    IF \E j \in 1..Len(tb) : tb[j].word = "create" THEN "create"
    ELSE IF \E j \in 1..Len(tb) : tb[j].word = "modify" THEN "modify"
    ELSE IF \E j \in 1..Len(tb) : tb[j].word = "delete" THEN "delete"
    ELSE "create"

KindFollowsTheTextBeforeTheFirstOccurrence ==
    parsed.status = "returned" =>
        \A k \in 1..Len(parsed.ops) :
            /\ parsed.ops[k].op_type \in {"create", "modify", "delete"}
            /\ parsed.ops[k].op_type = KindByFamilies(TextBefore(response_text, parsed.ops[k].content))
            /\ CodesOccurOnce => parsed.ops[k].op_type = KindByFamilies(Preceding(response_text, k))

\* A block, the word "delete", and a block with the same code: the second
\* block is a Create.
RepeatedBlockAfterDeleteIsCreate ==
    /\ parsed.status = "returned"
    /\ response_text = <<Piece("block", "", 0, "", "python", "x = 1"), Piece("keyword", "", 0, "delete", "", ""),
                         Piece("block", "", 0, "", "python", "x = 1")>>
    /\ parsed.ops[2].op_type = "create"

\* ------------------------------------------------- the roster's names

\* add_agent: self.agents.append(agent).
AddAgent(name) ==
    /\ dpc = "idle"
    /\ N < MaxAgents
    /\ agents' = Append(agents, name)
    /\ UNCHANGED <<kind, dpc, task, proc, doneOrder, responses, raisedErr>>
    /\ UNCHANGED notDispatch

\* The roster without its entry at place i.
Pop(roster, i) == SubSeq(roster, 1, i - 1) \o SubSeq(roster, i + 1, Len(roster))

\* remove_agent: the first agent whose lower-cased name is the lower-cased
\* argument is popped (True); the roster is left alone when there is none
\* (False).
RemoveAgent(agent_name) ==
    /\ dpc = "idle"
    /\ LET found == {i \in 1..N : lower(agents[i]) = lower(agent_name)}
       IN agents' = IF found = {} THEN agents
                    ELSE Pop(agents, CHOOSE i \in found : \A x \in found : i <= x)
    /\ UNCHANGED <<kind, dpc, task, proc, doneOrder, responses, raisedErr>>
    /\ UNCHANGED notDispatch

\* A dispatcher constructed with no agent; agents are added and removed,
\* then dispatch_all runs.
InitRoster ==
    /\ InitDispatch
    /\ agents = <<>>

NextRoster ==
    \/ \E name \in Names : AddAgent(name)
    \/ \E agent_name \in Names : RemoveAgent(agent_name)
    \/ NextDispatch

SpecRoster == InitRoster /\ [][NextRoster]_vars

\* C38: after any sequence of add_agent and remove_agent calls no two
\* agents of the roster share a name, so the author of every Response
\* identifies exactly one agent.
C38_RosterNamesAreUnique ==
    /\ \A i, j \in 1..N : i # j => agents[i] # agents[j]
    /\ dpc = "returned" =>
          \A i \in 1..Len(responses) :
              Cardinality({j \in 1..N : agents[j] = responses[i].agent_name}) = 1

\* What does hold: the calls keep the roster within the names added, and a
\* roster of distinct names gives every Response an author of its own.
DistinctRosterGivesDistinctAuthors ==
    (dpc = "returned" /\ \A i, j \in 1..N : i # j => agents[i] # agents[j]) =>
        \A i \in 1..Len(responses) :
            Cardinality({j \in 1..N : agents[j] = responses[i].agent_name}) = 1

\* add_agent was called twice with the same name, and dispatch_all
\* returned two Responses of that author.
TwoAgentsOfOneNameAnswered ==
    /\ dpc = "returned"
    /\ N = 2
    /\ agents[1] = agents[2]
    /\ responses[1].agent_name = responses[2].agent_name

\* ------------------------------------------------ restore after an apply

\* A backup is made of a working directory, apply_changes then creates,
\* rewrites and deletes files, and restore_backup is called.
NextRollback ==
    \/ \E fp \in PathLists(MaxBackedUp) : lastOp.op = "none" /\ CreateBackup(fp)
    \/ \E diffs \in SeqsUpTo(DiffsGiven, MaxDiffs) \ {<<>>} :
          lastOp.op = "create" /\ ApplyChanges(diffs, FALSE, [k \in 1..Len(diffs) |-> "none"])
    \/ \E name \in 0..MaxTime :
          \E sel \in {NoneGiven} \cup {[given |-> TRUE, paths |-> l] : l \in PathLists(MaxSelected)} :
              lastOp.op = "create" /\ RestoreBackup(name, sel)

SpecRollback == InitManifest /\ [][NextRollback]_vars

\* A step of restore_backup.
RestoreStep == lastOp.op = "create" /\ lastOp'.op \in {"restore", "restore raised"}

\* The files the manifest of the backup lists as original paths.
ListedOriginals(f, name) ==
    {WorkingDirJoin(ReadManifest(f, name).files[k].original_path) :
        k \in 1..Len(ReadManifest(f, name).files)}

\* C39: restore_backup deletes no file and writes only the original paths
\* the manifest of the backup lists: every other file, one created by an
\* apply after the snapshot included, exists unchanged after the restore.
C39_RestoreTouchesOnlyTheListedPaths ==
    [][RestoreStep =>
          /\ DOMAIN fs \subseteq DOMAIN fs'
          /\ \A loc \in DOMAIN fs' :
                loc \notin ListedOriginals(fs, lastOp'.name) => (loc \in DOMAIN fs /\ fs'[loc] = fs[loc])]_vars

\* A restore gave a file back while a file that an apply had created after
\* the snapshot is there.
C39_Witness ==
    /\ lastOp.op = "restore"
    /\ lastOp.restored # {}
    /\ applied.pc = "returned"
    /\ \E k \in 1..Len(applied.diffs) :
          /\ applied.diffs[k].file_path = "sub/b.py"
          /\ applied.outcome[k] = "success"
    /\ Exists(fs, WorkLoc("sub/b.py"))
    /\ \A k \in 1..Len(ReadManifest(fs, lastOp.name).files) :
          ReadManifest(fs, lastOp.name).files[k].original_path # "sub/b.py"

\* ------------------------------------------- apply and the working root

\* The diffs of operations extracted from a response: their paths are the
\* mentions of the text, relative, absolute, or through "..".
DiffsExtracted ==
    {FileDiff(o, p, Absent, <<"x">>) :
        o \in {"create", "modify", "delete"}, p \in {"a.py", "/w/a.py"} \cup OutsidePaths}

\* A working directory, and files that may exist outside it.
InitOutside ==
    /\ kind = "cli"
    /\ agents = <<>>
    /\ responses = <<>>
    /\ DispatcherIdle
    /\ EvaluatorIdle
    /\ QueryIdle
    /\ \E S \in SUBSET ({WorkLoc("a.py")} \cup {WorkingDirJoin(p) : p \in OutsidePaths}) :
          fs = [loc \in S |-> Data(OldText)]
    /\ dirs = {}
    /\ now = 0
    /\ taken = <<>>
    /\ lastOp = NoOp
    /\ ApplyIdle
    /\ ParserIdle
    /\ OrchestratorIdle

NextOutside ==
    /\ applied.pc = "none"
    /\ \E diffs \in SeqsUpTo(DiffsExtracted, MaxDiffs) : \E dry_run \in BOOLEAN :
          ApplyChanges(diffs, dry_run, [k \in 1..Len(diffs) |-> "none"])

SpecOutside == InitOutside /\ [][NextOutside]_vars

\* The files a step created, rewrote or deleted.
Touched == {loc \in DOMAIN fs \cup DOMAIN fs' :
               \/ loc \in DOMAIN fs /\ loc \notin DOMAIN fs'
               \/ loc \notin DOMAIN fs /\ loc \in DOMAIN fs'
               \/ loc \in DOMAIN fs /\ loc \in DOMAIN fs' /\ fs'[loc] # fs[loc]}

\* C40: every file apply_changes creates, writes or deletes lies under the
\* working root, whatever path the operation carries.
C40_ApplyStaysUnderTheWorkingRoot ==
    [][\A loc \in Touched : loc.root = "work"]_vars

\* What does hold: apply_changes touches only the files its diffs name,
\* each at working_dir / file_path, and stays under the working root when
\* no path is absolute elsewhere or leads through "..".
ApplyTouchesOnlyTheJoinedPaths ==
    [][/\ \A loc \in Touched :
             \E k \in 1..Len(applied'.diffs) : loc = WorkingDirJoin(applied'.diffs[k].file_path)
       /\ (\A k \in 1..Len(applied'.diffs) : applied'.diffs[k].file_path \notin OutsidePaths) =>
             \A loc \in Touched : loc.root = "work"]_vars

\* An apply wrote /etc/x.conf, and one deleted the file ../c.py.
AppliedOutsideTheWorkingRoot ==
    /\ applied.pc = "returned"
    /\ applied.diffs # <<>>
    /\ ~applied.dry_run
    /\ \/ /\ applied.diffs[1] = FileDiff("create", "/etc/x.conf", Absent, <<"x">>)
          /\ Exists(fs, OutsideLoc("/etc/x.conf"))
          /\ fs[OutsideLoc("/etc/x.conf")] = Data(<<"x">>)
       \/ /\ applied.diffs = <<FileDiff("delete", "../c.py", Absent, <<"x">>)>>
          /\ ~Exists(fs, OutsideLoc("/c.py"))
          /\ applied.success = <<"../c.py">>

====
